---- MODULE Spec2Model ----
(***************************************************************************)
(* Model of the HTTP request core and the toast hook of                    *)
(* evm-dapp-dev-template:                                                  *)
(*   - src/src/utils/api.ts       validateUrl, toApiError, createApiError, *)
(*                                serializeRequestBody                     *)
(*   - src/src/utils/index.ts     retry                                    *)
(*   - src/unnamed/part_005       createCombinedSignal, executeHttpRequest *)
(*   - src/src/utils/callback.ts  safeCallback                             *)
(*   - src/src/hooks/useApi.ts    useApiCommon, useApi, useApiMutation     *)
(*   - src/src/hooks/useToast.ts  useToast                                 *)
(*                                                                         *)
(* Spec      : one hook instance (query or mutation) with its calls, each  *)
(*             call running its own executeHttpRequest.                    *)
(* SpecExec  : one direct call of executeHttpRequest(url, config, signal). *)
(* SpecRetry : one call of retry(fn, options).                             *)
(* SpecConfig: a hook instance whose owner re-renders with other configs   *)
(*             and whose mutate() calls override config fields.            *)
(* SpecLive  : a hook instance with fair timers and a transport that       *)
(*             honours the abort signal.                                   *)
(* SpecToast : one useToast() instance, its callers and its timers.        *)
(*                                                                         *)
(* Strings of the source are modelled as sequences of one-character        *)
(* strings; the Chinese messages of the source are written in English.     *)
(***************************************************************************)
EXTENDS Integers, Sequences, FiniteSets, TLC

VARIABLES
    hookKind,            \* "useApi" | "useApiMutation"
    url,                 \* useApi: the url argument of the latest render
    config,              \* configRef.current
    state,               \* useState: [data, loading, error]
    abortControllerRef,  \* 0 = null, else the id of the current controller
    isMountedRef,        \* isMountedRef.current
    aborted,             \* controller id -> controller.signal.aborted
    calls,               \* the execute()/mutate() calls issued so far
    r,                   \* the retry() call of SpecRetry
    req,                 \* the executeHttpRequest() call of SpecExec
    toast                \* the useToast() instance of SpecToast

vars == <<hookKind, url, config, state, abortControllerRef, isMountedRef,
          aborted, calls, r, req, toast>>

hookVars == <<hookKind, url, config, state, abortControllerRef, isMountedRef,
              aborted, calls>>

----------------------------------------------------------------------------
(* Bounds *)

MaxCalls == 2          \* execute()/mutate() calls per hook instance
MaxAttemptsBound == 3  \* largest maxAttempts given to retry() in SpecRetry
MaxToasts == 3         \* show() calls per useToast instance in SpecToast
MaxCloseAlls == 2      \* closeAll() calls per useToast instance in SpecToast

----------------------------------------------------------------------------
(* Values *)

\* the payload the server returns to the request of call c
PayloadOf(c) == "payload" \o ToString(c)

\* the values of config.retries the owner of the hook supplies
RetriesValues == {0, 1}

\* the configs the owner of the hook supplies: retries, and onSuccess/onError
\* callbacks that return or that throw
ConfigValues ==
    {[retries |-> n, callbacks |-> "return"] : n \in RetriesValues}
    \cup {[retries |-> 0, callbacks |-> "throw"]}

Payloads == {PayloadOf(c) : c \in 1..MaxCalls}

\* a JavaScript value used as a url: a string (sequence of characters) or not
Str(s) == [t |-> "string", s |-> s]
Undefined == [t |-> "undefined", s |-> <<>>]

UrlValues == { Str(<<>>), Str(<<" ", " ">>), Str(<<" ", "/", "a">>) }

\* the urls a mutate() caller can put in params: a string, or no url at all
ParamUrlValues == UrlValues \cup {Undefined}

\* response.statusText for the statuses of the model; status 0 stands for no
\* response, where status and statusText are undefined
StatusTextOf(status) ==
    CASE status = 200 -> "OK"
      [] status = 404 -> "Not Found"
      [] OTHER -> "undefined"

\* an error value: a plain ApiError object (name "ApiError") or a thrown
\* Error instance (name "AbortError", "TypeError", "Error")
Err(name, message, status, data) ==
    [name |-> name, message |-> message, status |-> status,
     statusText |-> StatusTextOf(status), data |-> data]

\* null, in the shape of the values it is compared with
NullError == Err("null", "null", 0, "null")
NullData == "null"

----------------------------------------------------------------------------
(* src/src/utils/api.ts *)

\* createApiError(message, response?, data?): status 0 stands for undefined
createApiError(message, status, data) == Err("ApiError", message, status, data)

RECURSIVE trimStart(_)
trimStart(s) ==
    IF s = <<>> THEN <<>>
    ELSE IF Head(s) = " " THEN trimStart(Tail(s)) ELSE s

RECURSIVE trimEnd(_)
trimEnd(s) ==
    IF s = <<>> THEN <<>>
    ELSE IF s[Len(s)] = " " THEN trimEnd(SubSeq(s, 1, Len(s) - 1)) ELSE s

\* String.prototype.trim
trim(s) == trimEnd(trimStart(s))

UrlEmptyError == createApiError("request URL must not be empty", 0, "undefined")

\* variant: the url is not trimmed before it is compared with ''
validateUrlThrows_noTrim(u) ==
    \/ u.t # "string"
    \/ u.s = <<>>

\* validateUrl throws exactly when this holds
validateUrlThrows(u) ==
    \/ u.t # "string"        \* !url (undefined) or typeof url !== 'string'
    \/ u.s = <<>>            \* !url ('')
    \/ trim(u.s) = <<>>      \* url.trim() === ''

\* variant: every error is wrapped
toApiError_alwaysWraps(e) == createApiError("unknown error", 0, e.data)

\* toApiError(error)
toApiError(e) ==
    IF e.name \in {"ApiError", "AbortError", "TypeError", "Error"}
    THEN e
    ELSE createApiError("unknown error", 0, e.data)

\* JavaScript values used as request bodies: [t |-> type, s |-> characters,
\* items |-> members]. A string holds its characters, a number its decimal
\* digits; an array holds its elements and an object its properties, in
\* insertion order, as members [k |-> key, val |-> value] (an element has the
\* empty key).
JsValue(t, s, items) == [t |-> t, s |-> s, items |-> items]
JsUndefined == JsValue("undefined", <<>>, <<>>)
JsNull == JsValue("null", <<>>, <<>>)
JsString(s) == JsValue("string", s, <<>>)
JsNumber(digits) == JsValue("number", digits, <<>>)
JsArray(elements) ==
    JsValue("array", <<>>,
            [i \in 1..Len(elements) |-> [k |-> <<>>, val |-> elements[i]]])
JsObject(properties) ==
    JsValue("object", <<>>,
            [i \in 1..Len(properties) |->
                [k |-> properties[i][1], val |-> properties[i][2]]])
JsFunction == JsValue("function", <<>>, <<>>)
FormData == JsValue("FormData", <<>>, <<>>)
URLSearchParams == JsValue("URLSearchParams", <<>>, <<>>)
\* an object that holds a reference to itself
Circular == JsValue("circular", <<>>, <<>>)

\* JSON.stringify throws on v: a circular structure, at any depth
RECURSIVE stringifyThrows(_)
stringifyThrows(v) ==
    CASE v.t = "circular" -> TRUE
      [] v.t \in {"array", "object"} ->
            \E i \in 1..Len(v.items) : stringifyThrows(v.items[i].val)
      [] OTHER -> FALSE

\* a string between double quotes, with " and \ escaped
RECURSIVE escape(_)
escape(s) ==
    IF s = <<>> THEN <<>>
    ELSE IF Head(s) \in {"\"", "\\"} THEN <<"\\", Head(s)>> \o escape(Tail(s))
    ELSE <<Head(s)>> \o escape(Tail(s))

quote(s) == <<"\"">> \o escape(s) \o <<"\"">>

\* the JSON text of v where JSON.stringify gives one; inside an array
\* undefined and functions become null, inside an object their property is
\* left out
RECURSIVE jsonText(_)
RECURSIVE jsonElements(_)
RECURSIVE jsonProperties(_, _)
jsonText(v) ==
    CASE v.t = "null" -> <<"n", "u", "l", "l">>
      [] v.t = "number" -> v.s
      [] v.t = "string" -> quote(v.s)
      [] v.t = "array" -> <<"[">> \o jsonElements(v.items) \o <<"]">>
      [] v.t = "object" -> <<"{">> \o jsonProperties(v.items, TRUE) \o <<"}">>
      [] v.t \in {"FormData", "URLSearchParams"} -> <<"{", "}">>
      [] OTHER -> <<"n", "u", "l", "l">>

jsonElements(vs) ==
    IF vs = <<>> THEN <<>>
    ELSE jsonText(Head(vs).val)
         \o (IF Len(vs) > 1 THEN <<",">> ELSE <<>>)
         \o jsonElements(Tail(vs))

jsonProperties(ps, first) ==
    IF ps = <<>> THEN <<>>
    ELSE IF Head(ps).val.t \in {"undefined", "function"}
    THEN jsonProperties(Tail(ps), first)
    ELSE (IF first THEN <<>> ELSE <<",">>)
         \o quote(Head(ps).k) \o <<":">> \o jsonText(Head(ps).val)
         \o jsonProperties(Tail(ps), FALSE)

\* JSON.stringify(v) for a v it does not throw on: a string, or undefined
JSONstringify(v) ==
    IF v.t \in {"undefined", "function"} THEN JsUndefined
    ELSE JsString(jsonText(v))

SerializationError == createApiError("request body serialization failed", 0, "undefined")

\* the test of serializeRequestBody for the bodies it hands on as they are
passesThrough(body) ==
    \/ body.t = "undefined"
    \/ body.t \in {"FormData", "URLSearchParams", "string"}

\* serializeRequestBody throws exactly when JSON.stringify is reached and throws
serializeThrows(body) == ~passesThrough(body) /\ stringifyThrows(body)

\* variant: strings are stringified like every other value
serializeRequestBody_quotesStrings(body) ==
    IF body.t = "undefined" THEN body
    ELSE IF body.t \in {"FormData", "URLSearchParams"} THEN body
    ELSE JSONstringify(body)

\* serializeRequestBody(body) for a body it does not throw on
serializeRequestBody(body) ==
    IF body.t = "undefined" THEN body
    ELSE IF body.t \in {"FormData", "URLSearchParams", "string"} THEN body
    ELSE JSONstringify(body)

\* the request bodies of the model
BodyValues ==
    { JsUndefined, JsNull, FormData, URLSearchParams, JsFunction, Circular,
      JsString(<<>>), JsString(<<"a", "b">>), JsString(<<"1">>),
      JsString(<<"\"", "a", "\"">>), JsString(<<"[", "1", "]">>),
      JsNumber(<<"7">>), JsNumber(<<"1", "0">>),
      JsArray(<<>>), JsArray(<<JsNumber(<<"1">>), JsString(<<"a">>)>>),
      JsArray(<<JsUndefined, JsNull>>), JsArray(<<JsArray(<<JsNumber(<<"2">>)>>)>>),
      JsArray(<<Circular>>),
      JsObject(<<>>), JsObject(<< <<(<<"a">>), JsNumber(<<"1">>)>> >>),
      JsObject(<< <<(<<"a">>), JsString(<<"\"">>)>>, <<(<<"b">>), JsUndefined>> >>),
      JsObject(<< <<(<<"a">>), JsArray(<<JsNull>>)>>, <<(<<"b">>), JsObject(<<>>)>> >>),
      JsObject(<< <<(<<"a">>), Circular>> >>) }

\* the string without its first n characters
drop(s, n) == SubSeq(s, n + 1, Len(s))

\* String.prototype.startsWith
startsWith(s, prefix) ==
    Len(s) >= Len(prefix) /\ SubSeq(s, 1, Len(prefix)) = prefix

\* buildFullUrl(url, baseUrl) on the characters of the two strings
buildFullUrl(u, baseUrl) ==
    IF startsWith(u, <<"h", "t", "t", "p">>) THEN u ELSE baseUrl \o u

----------------------------------------------------------------------------
(* src/src/utils/index.ts: retry(fn, options) *)

\* Math.pow(2, n)
RECURSIVE pow2(_)
pow2(n) == IF n <= 0 THEN 1 ELSE 2 * pow2(n - 1)

\* variant: the exponent is the attempt number, not the attempt number less one
retryDelay_exponentK(opts, k) ==
    IF opts.backoff THEN opts.delayMs * pow2(k) ELSE opts.delayMs

\* the delay after failed attempt k
retryDelay(opts, k) ==
    IF opts.backoff THEN opts.delayMs * pow2(k - 1) ELSE opts.delayMs

DelayValues == {100, 1000}

RetryOptions ==
    [maxAttempts : (0 - 1)..MaxAttemptsBound, delayMs : DelayValues,
     backoff : BOOLEAN, onError : {"none", "returns", "throws"}]

\* the value attempt k of fn resolves with, the error it rejects with
FnValue(k) == [attempt |-> k, v |-> "value"]
FnError(k) == [attempt |-> k, v |-> "error"]
CallbackError(k) == [attempt |-> k, v |-> "callback error"]
NoValue == [attempt |-> 0, v |-> "undefined"]

\* the for loop reaches its condition with `attempt`: fn is invoked, or the
\* loop ends and lastError is thrown
retryLoop(q, attempt) ==
    IF attempt <= q.opts.maxAttempts
    THEN [q EXCEPT !.pc = "fn", !.attempt = attempt, !.fnCalls = @ + 1]
    ELSE [q EXCEPT !.pc = "thrown", !.attempt = attempt, !.error = q.lastError]

\* retry(fn, opts) up to its first suspension
retryStart(opts) ==
    retryLoop([opts |-> opts, pc |-> "start", attempt |-> 0, fnCalls |-> 0,
               onErrorCalls |-> <<>>, delays |-> <<>>, lastError |-> NoValue,
               result |-> NoValue, error |-> NoValue], 1)

\* variant: `await fn()` without the return, so the loop goes on
retryFnResolves_noReturn(q) ==
    retryLoop([q EXCEPT !.result = FnValue(q.attempt)], q.attempt + 1)

\* `return await fn()` when fn resolved
retryFnResolves(q) ==
    [q EXCEPT !.pc = "returned", !.result = FnValue(q.attempt)]

\* onError(error, attempt) as the callback saw it
OnErrorCall(e, k) == [error |-> e, attempt |-> k]

\* variant: without the `attempt === maxAttempts` test, so the final failure
\* is reported and waited for like the others before lastError is thrown
retryFnRejects_noFinalTest(q) ==
    LET e == FnError(q.attempt)
        q1 == [q EXCEPT !.lastError = e]
    IN  IF q.opts.onError = "throws"
        THEN [q1 EXCEPT !.pc = "thrown", !.error = CallbackError(q.attempt),
                        !.onErrorCalls = Append(@, OnErrorCall(e, q.attempt))]
        ELSE [q1 EXCEPT !.pc = "delay",
                        !.onErrorCalls = IF q.opts.onError = "none" THEN @
                                         ELSE Append(@, OnErrorCall(e, q.attempt)),
                        !.delays = Append(@, retryDelay(q.opts, q.attempt))]

\* variant: onError is called inside a try/catch of its own
retryFnRejects_guardedOnError(q) ==
    LET e == FnError(q.attempt)
        q1 == [q EXCEPT !.lastError = e]
    IN  IF q.attempt = q.opts.maxAttempts
        THEN [q1 EXCEPT !.pc = "thrown", !.error = e]
        ELSE [q1 EXCEPT !.pc = "delay",
                        !.onErrorCalls = IF q.opts.onError = "none" THEN @
                                         ELSE Append(@, OnErrorCall(e, q.attempt)),
                        !.delays = Append(@, retryDelay(q.opts, q.attempt))]

\* the catch block when fn rejected
retryFnRejects(q) ==
    LET e == FnError(q.attempt)
        q1 == [q EXCEPT !.lastError = e]
    IN  IF q.attempt = q.opts.maxAttempts
        THEN [q1 EXCEPT !.pc = "thrown", !.error = e]
        ELSE IF q.opts.onError = "throws"
        THEN [q1 EXCEPT !.pc = "thrown", !.error = CallbackError(q.attempt),
                        !.onErrorCalls = Append(@, OnErrorCall(e, q.attempt))]
        ELSE [q1 EXCEPT !.pc = "delay",
                        !.onErrorCalls = IF q.opts.onError = "none" THEN @
                                         ELSE Append(@, OnErrorCall(e, q.attempt)),
                        !.delays = Append(@, retryDelay(q.opts, q.attempt))]

\* the setTimeout of the delay fired: attempt++ and the loop goes on
retryDelayElapsed(q) == retryLoop(q, q.attempt + 1)

----------------------------------------------------------------------------
(* src/unnamed/part_005: executeHttpRequest, one record per executor call *)

CancelledError == createApiError("request was cancelled", 0, "undefined")
NetworkError == createApiError("network connection failed", 0, "undefined")
ParseError(status) == createApiError("response data parse failed", status, "undefined")

\* the bodies of a non-2xx response: a JSON text, a text that is not JSON,
\* and a body whose response.text() rejects
JsonBody == "{\"error\":\"not found\"}"
TextBody == "<h1>missing</h1>"
UnreadableBody == "unreadable"
HttpBodies == {JsonBody, TextBody, UnreadableBody}

\* JSON.parse on the texts of the model: it throws on a text that is not JSON
\* and returns the object {error: 'not found'} for JsonBody
NotFoundObject == "{error: 'not found'}"
JSONparseThrows(text) == text # JsonBody
JSONparse(text) == NotFoundObject

\* data.error of an error's data
DataError(d) == IF d = NotFoundObject THEN "not found" ELSE "undefined"

\* variant: the body is kept as raw text, never parsed
handleResponseError_rawText(status, body) ==
    createApiError("HTTP " \o ToString(status) \o ": " \o StatusTextOf(status),
                   status, IF body = UnreadableBody THEN NullData ELSE body)

\* handleResponseError(response): the error it throws
handleResponseError(status, body) ==
    LET errorData == IF body = UnreadableBody THEN NullData
                     ELSE IF JSONparseThrows(body) THEN body
                     ELSE JSONparse(body)
    IN  createApiError("HTTP " \o ToString(status) \o ": " \o StatusTextOf(status),
                       status, errorData)

\* the messages of the plain Error instances a transport rejects with
ErrorMessages == {"boom", "fetch failed"}

\* the values that are no object with a message a transport rejects with
ThrownValues == {"boom"}

\* a thrown value v that is not an object with a message
Thrown(v) == Err("value", "undefined", 0, v)

\* what one transport attempt (fetch, then reading the body) can produce
Outcomes ==
    [k : {"ok"}, p : Payloads, s : {200}]        \* 2xx, body parses to p
    \cup [k : {"unparsable"}, p : {"null"}, s : {200}]  \* 2xx, body does not parse
    \cup [k : {"http"}, p : HttpBodies, s : {404}]      \* non-2xx with body p
    \cup [k : {"network"}, p : {"null"}, s : {0}]       \* fetch rejects: TypeError
    \cup [k : {"abort"}, p : {"null"}, s : {0}]         \* fetch rejects: AbortError
    \cup [k : {"error"}, p : ErrorMessages, s : {0}]    \* rejects: new Error(p)
    \cup [k : {"thrown"}, p : ThrownValues, s : {0}]    \* rejects with the value p

\* the error one failed attempt throws inside retry's fn
AttemptError(o) ==
    CASE o.k = "http" -> handleResponseError(o.s, o.p)
      [] o.k = "network" -> Err("TypeError", "Failed to fetch", 0, "undefined")
      [] o.k = "abort" -> Err("AbortError", "aborted", 0, "undefined")
      [] o.k = "error" -> Err("Error", o.p, 0, "undefined")
      [] o.k = "thrown" -> Thrown(o.p)

\* error instanceof Error
instanceofError(e) == e.name \in {"AbortError", "TypeError", "Error"}

\* message.includes('fetch') on the messages of the model
includesFetch(message) == message \in {"Failed to fetch", "fetch failed"}

\* variant: no catch block, the error leaves the executor as it was thrown
classifyError_rethrows(e) == e

\* the catch block of executeHttpRequest
classifyError(e) ==
    IF instanceofError(e) /\ e.name = "AbortError" THEN CancelledError
    ELSE IF instanceofError(e) /\ (includesFetch(e.message) \/ e.name = "TypeError")
    THEN NetworkError
    ELSE toApiError(e)

\* the defaults of the config executeHttpRequest destructures
DefaultBaseUrl == <<>>
DefaultRetryDelay == 1000

\* the config fields of the model with the defaults applied
ExecConfig(base, n, delay) ==
    [baseUrl |-> base, retries |-> n, retryDelay |-> delay]

\* the options executeHttpRequest hands to retry: backoff is left to its
\* default
ExecRetryOptions(x) == [delayMs |-> x.retryDelay, backoff |-> TRUE]

ExIdle ==
    [phase |-> "idle", attempt |-> 0, maxAttempts |-> 0, fetches |-> 0,
     fullUrl |-> <<>>,         \* the url handed to fetch
     retryDelay |-> 0,         \* config.retryDelay
     wait |-> 0,               \* the backoff wait started last, in ms
     timer |-> "none", listeners |-> {}, hasSignal |-> FALSE,
     timeoutAborted |-> FALSE, combinedAborted |-> FALSE,
     data |-> NullData, error |-> NullError]

\* the signal handed to fetch: combinedController.signal when a caller signal
\* was given, the timeout controller's signal otherwise
effectiveAborted(x) ==
    IF x.hasSignal THEN x.combinedAborted ELSE x.timeoutAborted

\* variant: a finally block that only runs cleanup()
execFinally_keepsTimer(x) == [x EXCEPT !.listeners = {}]

\* the finally block: clearTimeout and cleanup()
execFinally(x) ==
    [x EXCEPT !.timer = IF @ = "armed" THEN "cleared" ELSE @,
              !.listeners = {}]

\* variant: the first attempt is made whatever maxAttempts is
execRetry_attemptsOnce(cfg) ==
    retryStart([maxAttempts |-> IF cfg.retries + 1 <= 0 THEN 1 ELSE cfg.retries + 1,
                delayMs |-> cfg.retryDelay, backoff |-> TRUE, onError |-> "returns"])

\* the retry(...) call of executeHttpRequest up to its first suspension
execRetry(cfg) ==
    retryStart([maxAttempts |-> cfg.retries + 1, delayMs |-> cfg.retryDelay,
                backoff |-> TRUE, onError |-> "returns"])

\* executeHttpRequest up to its first suspension, `await retry(...)`. When
\* retry has thrown without invoking fn the call is in phase "unwinding": its
\* promise is pending, the timer is armed and the listeners are registered,
\* and the catch and finally blocks run in a later microtask.
execStartWith(u, cfg, hasSignal) ==
    IF validateUrlThrows(u)
    THEN [ExIdle EXCEPT !.phase = "rejected", !.error = UrlEmptyError]
    ELSE IF execRetry(cfg).pc = "thrown"
    THEN [ExIdle EXCEPT
            !.phase = "unwinding", !.maxAttempts = cfg.retries + 1,
            !.fullUrl = buildFullUrl(u.s, cfg.baseUrl),
            !.retryDelay = cfg.retryDelay,
            !.timer = "armed", !.hasSignal = hasSignal,
            !.listeners = IF hasSignal THEN {"signal", "timeout"} ELSE {}]
    ELSE [ExIdle EXCEPT
            !.phase = "fetching", !.attempt = 1, !.maxAttempts = cfg.retries + 1,
            !.fullUrl = buildFullUrl(u.s, cfg.baseUrl),
            !.retryDelay = cfg.retryDelay,
            !.fetches = 1, !.timer = "armed", !.hasSignal = hasSignal,
            !.listeners = IF hasSignal THEN {"signal", "timeout"} ELSE {}]

\* executeHttpRequest with a config that has retries and leaves baseUrl and
\* retryDelay to their defaults
execStart(u, retries, hasSignal) ==
    execStartWith(u, ExecConfig(DefaultBaseUrl, retries, DefaultRetryDelay), hasSignal)

\* the continuation of `await retry(...)` when retry threw without invoking
\* fn: the catch block classifies the thrown lastError, the finally block
\* clears the timer and removes the listeners
execRetryThrew(x) ==
    LET thrown == retryStart([maxAttempts |-> x.maxAttempts, delayMs |-> x.retryDelay,
                              backoff |-> TRUE, onError |-> "returns"]).error
    IN  execFinally([x EXCEPT !.phase = "rejected",
                              !.error = classifyError(Thrown(thrown.v))])

\* variant: a failed attempt is always followed by a wait and another one
execAttemptSettle_noLastAttempt(x, o) ==
    IF o.k = "ok"
    THEN execFinally([x EXCEPT !.phase = "resolved", !.data = o.p])
    ELSE IF o.k = "unparsable"
    THEN execFinally([x EXCEPT !.phase = "rejected",
                               !.error = classifyError(ParseError(o.s))])
    ELSE [x EXCEPT !.phase = "waiting",
                   !.wait = retryDelay(ExecRetryOptions(x), x.attempt)]

\* the attempt in flight settles with outcome o
execAttemptSettle(x, o) ==
    IF o.k = "ok"
    THEN execFinally([x EXCEPT !.phase = "resolved", !.data = o.p])
    ELSE IF o.k = "unparsable"
    THEN execFinally([x EXCEPT !.phase = "rejected",
                               !.error = classifyError(ParseError(o.s))])
    ELSE IF x.attempt = x.maxAttempts
    THEN execFinally([x EXCEPT !.phase = "rejected",
                               !.error = classifyError(AttemptError(o))])
    ELSE [x EXCEPT !.phase = "waiting",
                   !.wait = retryDelay(ExecRetryOptions(x), x.attempt)]

\* variant: every attempt gets a timeout of its own
execDelayElapsed_rearmsTimer(x) ==
    [x EXCEPT !.phase = "fetching", !.attempt = @ + 1, !.fetches = @ + 1,
              !.timer = "armed", !.timeoutAborted = FALSE]

\* the backoff wait of retry is over: the next attempt starts
execDelayElapsed(x) ==
    [x EXCEPT !.phase = "fetching", !.attempt = @ + 1, !.fetches = @ + 1]

\* handleAbort, run by the listener on `src` ({once: true})
handleAbort(x, src) ==
    IF src \in x.listeners
    THEN [x EXCEPT !.combinedAborted = TRUE, !.listeners = @ \ {src}]
    ELSE x

\* variant: a timer whose callback does not abort the timeout controller
execTimeout_noAbort(x) == [x EXCEPT !.timer = "fired"]

\* the setTimeout callback
execTimeout(x) ==
    handleAbort([x EXCEPT !.timer = "fired", !.timeoutAborted = TRUE], "timeout")

\* the outcomes the transport can deliver to the attempt in flight: it rejects
\* with an AbortError only when its signal is aborted, and a transport that
\* has not honoured the abort yet can still deliver a response
OutcomesFor(x) ==
    IF effectiveAborted(x) THEN Outcomes
    ELSE {o \in Outcomes : o.k # "abort"}

\* a direct call executeHttpRequest(url, config, signal?): the executor call
\* and the caller's signal
NoExec ==
    [x |-> ExIdle, signalAborted |-> FALSE, url |-> Undefined,
     config |-> ExecConfig(DefaultBaseUrl, 0, DefaultRetryDelay)]

----------------------------------------------------------------------------
(* src/src/hooks/useToast.ts: one useToast() instance *)

\* the durations show() is called with: 0 (no auto-close) and the default
DefaultDuration == 3000
DurationValues == {0, DefaultDuration}

\* the instance after its first render. Ids are numbered in the order
\* generateId produced them.
NoToasts ==
    [toasts |-> <<>>,       \* useState: the items [id, isVisible]
     timeoutsRef |-> {},    \* the ids that have an entry in timeoutsRef.current
     timers |-> {},         \* the ids whose auto-close setTimeout is pending
     clearTimers |-> <<>>,  \* the pending 300 ms timers of closeAll(), oldest
                            \* first; history: each holds the number of ids
                            \* generated before its closeAll() was called
     ids |-> 0]             \* how many ids generateId has produced

\* prev.filter(toast => toast.id !== id)
RECURSIVE withoutId(_, _)
withoutId(items, id) ==
    IF items = <<>> THEN <<>>
    ELSE IF Head(items).id = id THEN withoutId(Tail(items), id)
    ELSE <<Head(items)>> \o withoutId(Tail(items), id)

\* clearToastTimeout(id)
clearToastTimeout(t, id) ==
    IF id \in t.timeoutsRef
    THEN [t EXCEPT !.timers = @ \ {id}, !.timeoutsRef = @ \ {id}]
    ELSE t

\* remove(id)
remove(t, id) == [t EXCEPT !.toasts = withoutId(@, id)]

\* close(id)
close(t, id) ==
    [clearToastTimeout(t, id) EXCEPT
        !.toasts = [i \in 1..Len(@) |->
                      IF @[i].id = id THEN [@[i] EXCEPT !.isVisible = FALSE] ELSE @[i]]]

\* closeAll() up to its return: the 300 ms timer is pending
closeAll(t) ==
    [t EXCEPT !.timers = @ \ t.timeoutsRef,
              !.timeoutsRef = {},
              !.toasts = [i \in 1..Len(@) |-> [@[i] EXCEPT !.isVisible = FALSE]],
              !.clearTimers = Append(@, t.ids)]

\* the callback of the oldest 300 ms timer of closeAll(): setToasts([])
closeAllTimer(t) == [t EXCEPT !.toasts = <<>>, !.clearTimers = Tail(@)]

\* show(message, type, {duration})
show(t, duration) ==
    LET id == t.ids + 1
        shown == [t EXCEPT !.ids = id,
                           !.toasts = Append(@, [id |-> id, isVisible |-> TRUE])]
    IN  IF duration > 0
        THEN [shown EXCEPT !.timers = @ \cup {id}, !.timeoutsRef = @ \cup {id}]
        ELSE shown

\* the callback of the auto-close timer of toast id: close(id)
autoCloseTimer(t, id) == close([t EXCEPT !.timers = @ \ {id}], id)

----------------------------------------------------------------------------
(* src/src/hooks/useApi.ts *)

INITIAL_STATE == [data |-> NullData, loading |-> FALSE, error |-> NullError]

ControllerIds == 1..MaxCalls

\* a field that an object does not have: retries, callbacks
AbsentRetries == 0 - 1
AbsentCallbacks == "absent"

\* a call without config fields of its own
NoConfig == [retries |-> AbsentRetries, callbacks |-> AbsentCallbacks]

\* one execute()/mutate() call; call i owns controller i when it creates one
NewCall ==
    [ctrl |-> 0,              \* the controller the call created, 0 if none
     promise |-> "pending",   \* the promise returned to the caller
     value |-> NullData,      \* what it resolved with
     reason |-> NullError,    \* what it rejected with
     cb |-> "none",           \* the config callback the call invoked last
     cbCalls |-> 0,           \* how many times it invoked a config callback
     cbThrew |-> FALSE,       \* whether that callback threw
     ex |-> ExIdle,           \* its executeHttpRequest call
     url |-> Undefined,       \* history: the url it was issued with
     requestConfig |-> NoConfig, \* the config fields of its params
     settledAs |-> "pending"] \* history: its standing when it settled

\* mutate(params): what the caller passed
\*   kind "falsy"     : undefined, null, 0, ''            (!params)
\*   kind "primitive" : a truthy non-object                (typeof !== 'object')
\*   kind "object"    : {url, body, ...requestConfig}
\* retries, callbacks: the fields of requestConfig, absent when params does
\* not have them
ParamValues ==
    [kind : {"falsy", "primitive"}, url : {Undefined}, body : {JsUndefined},
     retries : {AbsentRetries}, callbacks : {AbsentCallbacks}]
    \cup [kind : {"object"}, url : ParamUrlValues,
          body : {JsUndefined, JsObject(<< <<(<<"a">>), JsNumber(<<"1">>)>> >>), Circular},
          retries : {AbsentRetries}, callbacks : {AbsentCallbacks}]

\* `{ ...configRef.current, ...requestConfig }`
mergeConfig(base, requestConfig) ==
    [retries |-> IF requestConfig.retries = AbsentRetries
                 THEN base.retries ELSE requestConfig.retries,
     callbacks |-> IF requestConfig.callbacks = AbsentCallbacks
                   THEN base.callbacks ELSE requestConfig.callbacks]

\* the per-call config of execute(): configRef.current
NoParams == [retries |-> AbsentRetries, callbacks |-> AbsentCallbacks]

MissingParamsError == Err("Error", "missing request params", 0, "undefined")
ParamsNotObjectError == Err("Error", "request params must be an object", 0, "undefined")

\* the updater returned by createSafeStateUpdater(currentController): the
\* state after safeSetState(updater) given the refs at that moment
createSafeStateUpdater(mounted, current, c, prev, next) ==
    IF mounted /\ current = c THEN next ELSE prev

\* variant: only the abort flag is looked at after the await
settleSuppressed_abortedOnly(isAborted) == isAborted

\* variant: only the mount flag is looked at after the await
settleSuppressed_mountedOnly(isAborted) == ~isMountedRef

\* `controller.signal.aborted || !isMountedRef.current` after the await
settleSuppressed(isAborted) == isAborted \/ ~isMountedRef

\* variant: a validation failure that leaves loading as it was
validationFailureState_keepsLoading(prev, e) ==
    IF isMountedRef THEN [prev EXCEPT !.error = e] ELSE prev

\* the state left by a validation failure (execute and mutate alike)
validationFailureState(prev, e) ==
    IF isMountedRef THEN [prev EXCEPT !.error = e, !.loading = FALSE] ELSE prev

\* history: the standing of call c at the moment it settles
standing(c, current, isAborted) ==
    IF ~isMountedRef THEN "unmounted"
    ELSE IF current # c THEN "superseded"
    ELSE IF isAborted THEN "cancelled"
    ELSE "current"

\* what a config callback that throws throws
CallbackThrown == Err("Error", "callback failed", 0, "undefined")

\* variant: the callback is called without the try/catch
safeCallbackThrows_noCatch(threw) == threw

\* safeCallback(callback, errorMsg): whether an exception of the callback
\* escapes it
safeCallbackThrows(threw) == FALSE

\* history: the call invoked config callback `name`, which threw or returned
invoked(call, name, threw) ==
    [call EXCEPT !.cb = name, !.cbCalls = @ + 1, !.cbThrew = threw]

\* variant: a catch block that rethrows and does nothing else
catchBlock_rethrowsOnly(call, c, e, prev, current, isAborted, threw) ==
    [state |-> prev,
     call |-> [call EXCEPT !.promise = "rejected", !.reason = e,
                           !.settledAs = standing(c, current, isAborted)]]

\* variant: a failure that also drops the data of the previous success
catchBlock_dropsData(call, c, e, prev, current, isAborted, threw) ==
    LET settled == [call EXCEPT !.promise = "rejected",
                                !.settledAs = standing(c, current, isAborted)]
    IN  IF settleSuppressed(isAborted)
        THEN [state |-> prev, call |-> [settled EXCEPT !.reason = e]]
        ELSE [state |-> createSafeStateUpdater(isMountedRef, current, c, prev,
                          [data |-> NullData, loading |-> FALSE, error |-> toApiError(e)]),
              call |-> invoked([settled EXCEPT !.reason = toApiError(e)], "onError", threw)]

\* variant: a catch block that rethrows every cancellation error, whatever
\* aborted the request
catchBlock_silentOnCancellation(call, c, e, prev, current, isAborted, threw) ==
    LET settled == [call EXCEPT !.promise = "rejected",
                                !.settledAs = standing(c, current, isAborted)]
    IN  IF settleSuppressed(isAborted) \/ e = CancelledError
        THEN [state |-> prev, call |-> [settled EXCEPT !.reason = e]]
        ELSE [state |-> createSafeStateUpdater(isMountedRef, current, c, prev,
                          [prev EXCEPT !.loading = FALSE, !.error = toApiError(e)]),
              call |-> invoked([settled EXCEPT
                                  !.reason = IF safeCallbackThrows(threw)
                                             THEN CallbackThrown ELSE toApiError(e)],
                               "onError", threw)]

\* the catch block of execute()/mutate() for the thrown error e; `threw`
\* tells whether the config callback throws when it is invoked
catchBlock(call, c, e, prev, current, isAborted, threw) ==
    LET settled == [call EXCEPT !.promise = "rejected",
                                !.settledAs = standing(c, current, isAborted)]
    IN  IF settleSuppressed(isAborted)
        THEN [state |-> prev, call |-> [settled EXCEPT !.reason = e]]
        ELSE [state |-> createSafeStateUpdater(isMountedRef, current, c, prev,
                          [prev EXCEPT !.loading = FALSE, !.error = toApiError(e)]),
              call |-> invoked([settled EXCEPT
                                  !.reason = IF safeCallbackThrows(threw)
                                             THEN CallbackThrown ELSE toApiError(e)],
                               "onError", threw)]

\* variant: the resolution is written without looking at the controller
thenBlock_unguarded(call, c, d, prev, current, isAborted, threw) ==
    [state |-> IF isMountedRef
               THEN [data |-> d, loading |-> FALSE, error |-> NullError] ELSE prev,
     call |-> invoked([call EXCEPT !.promise = "resolved", !.value = d,
                                   !.settledAs = standing(c, current, isAborted)],
                      "onSuccess", threw)]

\* after `await executeHttpRequest(...)` resolved with data d, for call c
\* whose controller is the current one iff current = c; `threw` tells whether
\* the config callback throws when it is invoked. An exception that escapes
\* safeCallback inside the try lands in the catch block of the call.
thenBlock(call, c, d, prev, current, isAborted, threw) ==
    LET settled == [call EXCEPT !.promise = "resolved", !.value = d,
                                !.settledAs = standing(c, current, isAborted)]
        written == createSafeStateUpdater(isMountedRef, current, c, prev,
                          [data |-> d, loading |-> FALSE, error |-> NullError])
    IN  IF settleSuppressed(isAborted)
        THEN [state |-> prev, call |-> settled]
        ELSE IF safeCallbackThrows(threw)
        THEN catchBlock(invoked(call, "onSuccess", threw), c, CallbackThrown,
                        written, current, isAborted, threw)
        ELSE [state |-> written, call |-> invoked(settled, "onSuccess", threw)]

\* variant: the callbacks of the config the call handed to the executor
settlementConfig_perCall(call) == mergeConfig(config, call.requestConfig)

\* the config whose onSuccess/onError a settling call invokes:
\* configRef.current at that moment
settlementConfig(call) == config

\* controller.abort() as seen by the executor call listening to its signal
abortCalls(cs, c) ==
    IF c = 0 \/ c > Len(cs) THEN cs
    ELSE [cs EXCEPT ![c].ex = handleAbort(@, "signal")]

abortFlags(ab, c) == IF c = 0 THEN ab ELSE [ab EXCEPT ![c] = TRUE]

\* variant: the previous controller is replaced without being aborted
abortPrevious_skipped(ab, prior) == ab

\* `if (abortControllerRef.current) abortControllerRef.current.abort()` at
\* the start of a call
abortPrevious(ab, prior) == abortFlags(ab, prior)


\* execute()/mutate() from `if (abortControllerRef.current)` on, as call c:
\* abort the previous controller, install a new one, set loading, then
\* serialize the body and call the executor
startCall(c, u, body, requestConfig) ==
    LET prior == abortControllerRef
        loadingState == createSafeStateUpdater(isMountedRef, c, c, state,
                            [state EXCEPT !.loading = TRUE, !.error = NullError])
        merged == mergeConfig(config, requestConfig)
        call == [NewCall EXCEPT !.ctrl = c, !.url = u]
        threw == settlementConfig([call EXCEPT !.requestConfig = requestConfig]).callbacks = "throw"
        failed == catchBlock(call, c, SerializationError, loadingState, c, FALSE, threw)
        before == abortCalls(calls, prior)
    IN  /\ aborted' = abortPrevious(aborted, prior)
        /\ abortControllerRef' = c
        /\ IF serializeThrows(body)
           THEN /\ state' = failed.state
                /\ calls' = Append(before, failed.call)
           ELSE /\ state' = loadingState
                /\ calls' = Append(before,
                                   [call EXCEPT !.requestConfig = requestConfig,
                                                !.ex = execStart(u, merged.retries, TRUE)])

\* variant: a validation failure that aborts the request in flight
failValidation_aborts(u, e) ==
    /\ state' = validationFailureState(state, toApiError(e))
    /\ calls' = Append(abortCalls(calls, abortControllerRef),
                       [NewCall EXCEPT !.promise = "rejected",
                                       !.reason = toApiError(e),
                                       !.url = u,
                                       !.settledAs = "invalid"])
    /\ aborted' = abortFlags(aborted, abortControllerRef)
    /\ UNCHANGED abortControllerRef

\* a call that fails validation: sets the error and rejects
failValidation(u, e) ==
    /\ state' = validationFailureState(state, toApiError(e))
    /\ calls' = Append(calls, [NewCall EXCEPT !.promise = "rejected",
                                             !.reason = toApiError(e),
                                             !.url = u,
                                             !.settledAs = "invalid"])
    /\ UNCHANGED <<abortControllerRef, aborted>>

Init ==
    /\ hookKind \in {"useApi", "useApiMutation"}
    /\ url \in IF hookKind = "useApi" THEN UrlValues ELSE {Undefined}
    /\ config \in ConfigValues
    /\ state = INITIAL_STATE
    /\ abortControllerRef = 0
    /\ isMountedRef = TRUE
    /\ aborted = [c \in ControllerIds |-> FALSE]
    /\ calls = <<>>
    /\ r = 0
    /\ req = NoExec
    /\ toast = NoToasts

\* a render of the owner: useApi is called again with another url
Render(u) ==
    /\ isMountedRef
    /\ hookKind = "useApi"
    /\ u # url
    /\ url' = u
    /\ UNCHANGED <<hookKind, config, state, abortControllerRef, isMountedRef, aborted, calls, r, req, toast>>

\* useApi: execute()
Execute ==
    /\ hookKind = "useApi"
    /\ Len(calls) < MaxCalls
    /\ IF validateUrlThrows(url)
       THEN failValidation(url, UrlEmptyError)
       ELSE startCall(Len(calls) + 1, url, JsUndefined, NoParams)
    /\ UNCHANGED <<hookKind, url, config, isMountedRef, r, req, toast>>

\* useApiMutation: mutate(params)
Mutate(params) ==
    /\ hookKind = "useApiMutation"
    /\ Len(calls) < MaxCalls
    /\ IF params.kind = "falsy" THEN failValidation(params.url, MissingParamsError)
       ELSE IF params.kind # "object" THEN failValidation(params.url, ParamsNotObjectError)
       ELSE IF validateUrlThrows(params.url) THEN failValidation(params.url, UrlEmptyError)
       ELSE startCall(Len(calls) + 1, params.url, params.body,
                      [retries |-> params.retries, callbacks |-> params.callbacks])
    /\ UNCHANGED <<hookKind, url, config, isMountedRef, r, req, toast>>

\* variant: reset() that also aborts the request in flight
Reset_aborts ==
    /\ state' = IF isMountedRef THEN INITIAL_STATE ELSE state
    /\ aborted' = abortFlags(aborted, abortControllerRef)
    /\ calls' = abortCalls(calls, abortControllerRef)
    /\ UNCHANGED <<hookKind, url, config, abortControllerRef, isMountedRef, r, req, toast>>

\* reset()
Reset ==
    /\ state' = IF isMountedRef THEN INITIAL_STATE ELSE state
    /\ UNCHANGED <<hookKind, url, config, abortControllerRef, isMountedRef, aborted, calls, r, req, toast>>

\* variant: cancel() that also clears the error
Cancel_clearsError ==
    /\ IF abortControllerRef # 0
       THEN /\ aborted' = abortFlags(aborted, abortControllerRef)
            /\ calls' = abortCalls(calls, abortControllerRef)
            /\ state' = IF isMountedRef
                        THEN [state EXCEPT !.loading = FALSE, !.error = NullError]
                        ELSE state
       ELSE UNCHANGED <<aborted, calls, state>>
    /\ UNCHANGED <<hookKind, url, config, abortControllerRef, isMountedRef, r, req, toast>>

\* variant: cancel() that aborts and leaves loading as it was
Cancel_keepsLoading ==
    /\ IF abortControllerRef # 0
       THEN /\ aborted' = abortFlags(aborted, abortControllerRef)
            /\ calls' = abortCalls(calls, abortControllerRef)
            /\ state' = state
       ELSE UNCHANGED <<aborted, calls, state>>
    /\ UNCHANGED <<hookKind, url, config, abortControllerRef, isMountedRef, r, req, toast>>

\* cancel()
Cancel ==
    /\ IF abortControllerRef # 0
       THEN /\ aborted' = abortFlags(aborted, abortControllerRef)
            /\ calls' = abortCalls(calls, abortControllerRef)
            /\ state' = IF isMountedRef THEN [state EXCEPT !.loading = FALSE] ELSE state
       ELSE UNCHANGED <<aborted, calls, state>>
    /\ UNCHANGED <<hookKind, url, config, abortControllerRef, isMountedRef, r, req, toast>>

\* the cleanup of the mount effect
Unmount ==
    /\ isMountedRef
    /\ isMountedRef' = FALSE
    /\ aborted' = abortFlags(aborted, abortControllerRef)
    /\ calls' = abortCalls(calls, abortControllerRef)
    /\ UNCHANGED <<hookKind, url, config, state, abortControllerRef, r, req, toast>>

\* the transport settles the attempt in flight of call c with outcome o;
\* if that settles the executor call, execute()/mutate() continues
AttemptSettles(c, o) ==
    /\ c \in 1..Len(calls)
    /\ calls[c].ex.phase = "fetching"
    /\ o \in OutcomesFor(calls[c].ex)
    /\ o.k = "ok" => o.p = PayloadOf(c)
    /\ LET x == execAttemptSettle(calls[c].ex, o)
           threw == settlementConfig(calls[c]).callbacks = "throw"
           call == [calls[c] EXCEPT !.ex = x]
           done == IF x.phase = "resolved"
                   THEN thenBlock(call, c, x.data, state, abortControllerRef, aborted[c], threw)
                   ELSE catchBlock(call, c, x.error, state, abortControllerRef, aborted[c], threw)
       IN  IF x.phase = "waiting"
           THEN /\ calls' = [calls EXCEPT ![c] = call]
                /\ state' = state
           ELSE /\ calls' = [calls EXCEPT ![c] = done.call]
                /\ state' = done.state
    /\ UNCHANGED <<hookKind, url, config, abortControllerRef, isMountedRef, aborted, r, req, toast>>

\* the backoff wait of call c is over
DelayElapses(c) ==
    /\ c \in 1..Len(calls)
    /\ calls[c].ex.phase = "waiting"
    /\ calls' = [calls EXCEPT ![c].ex = execDelayElapsed(@)]
    /\ UNCHANGED <<hookKind, url, config, state, abortControllerRef, isMountedRef, aborted, r, req, toast>>

\* the timeout timer of call c fires
TimeoutFires(c) ==
    /\ c \in 1..Len(calls)
    /\ calls[c].ex.timer = "armed"
    /\ calls[c].ex.phase # "unwinding"
    /\ calls' = [calls EXCEPT ![c].ex = execTimeout(@)]
    /\ UNCHANGED <<hookKind, url, config, state, abortControllerRef, isMountedRef, aborted, r, req, toast>>

\* the outcomes the transport of the hook model delivers: a response with
\* the payload, a 404 with a JSON body, or the rejection of an aborted fetch
HookOutcomes ==
    {o \in Outcomes : o.k \in {"ok", "abort"} \/ (o.k = "http" /\ o.p = JsonBody)}

Next ==
    \/ \E u \in UrlValues : Render(u)
    \/ Execute
    \/ \E params \in ParamValues : Mutate(params)
    \/ Reset
    \/ Cancel
    \/ Unmount
    \/ \E c \in ControllerIds, o \in HookOutcomes : AttemptSettles(c, o)
    \/ \E c \in ControllerIds : DelayElapses(c)
    \/ \E c \in ControllerIds : TimeoutFires(c)

Spec == Init /\ [][Next]_vars

\* the transport honours the abort signal: it rejects the attempt in flight
\* of call c, whose signal is aborted, with an AbortError
TransportHonoursAbort(c) ==
    \E o \in HookOutcomes : o.k = "abort" /\ AttemptSettles(c, o)

\* SpecLive: the hook under the scheduling of the event loop. A timer that
\* is armed fires unless it is cleared first (the timeout of a call, the
\* backoff wait of retry), and the transport rejects an attempt whose signal
\* is aborted. The calls are the ones that pass validation.
LiveParamValues ==
    {params \in ParamValues :
        params.kind = "object" /\ ~validateUrlThrows(params.url)}

InitLive ==
    /\ hookKind \in {"useApi", "useApiMutation"}
    /\ url = IF hookKind = "useApi" THEN Str(<<"/", "a">>) ELSE Undefined
    /\ config \in {cfg \in ConfigValues : cfg.callbacks = "return"}
    /\ state = INITIAL_STATE
    /\ abortControllerRef = 0
    /\ isMountedRef = TRUE
    /\ aborted = [c \in ControllerIds |-> FALSE]
    /\ calls = <<>>
    /\ r = 0
    /\ req = NoExec
    /\ toast = NoToasts

NextLive ==
    \/ Execute
    \/ \E params \in LiveParamValues : Mutate(params)
    \/ Reset
    \/ Cancel
    \/ Unmount
    \/ \E c \in ControllerIds, o \in HookOutcomes : AttemptSettles(c, o)
    \/ \E c \in ControllerIds : DelayElapses(c)
    \/ \E c \in ControllerIds : TimeoutFires(c)

SpecLive ==
    /\ InitLive
    /\ [][NextLive]_vars
    /\ \A c \in ControllerIds : WF_vars(TimeoutFires(c))
    /\ \A c \in ControllerIds : WF_vars(DelayElapses(c))
    /\ \A c \in ControllerIds : WF_vars(TransportHonoursAbort(c))

\* SpecConfig: a hook whose owner renders it again with another config and
\* whose mutate() callers put config fields in params

\* params of mutate() with fields besides url and body
OverrideParamValues ==
    [kind : {"object"}, url : {Str(<<"/", "a">>)}, body : {JsUndefined},
     retries : {AbsentRetries, 1},
     callbacks : {AbsentCallbacks, "throw"}]

InitConfig ==
    /\ hookKind \in {"useApi", "useApiMutation"}
    /\ url = IF hookKind = "useApi" THEN Str(<<"/", "a">>) ELSE Undefined
    /\ config \in ConfigValues
    /\ state = INITIAL_STATE
    /\ abortControllerRef = 0
    /\ isMountedRef = TRUE
    /\ aborted = [c \in ControllerIds |-> FALSE]
    /\ calls = <<>>
    /\ r = 0
    /\ req = NoExec
    /\ toast = NoToasts

\* a render of the owner: the hook is called again with another config
RenderConfig(cfg) ==
    /\ isMountedRef
    /\ cfg # config
    /\ config' = cfg
    /\ UNCHANGED <<hookKind, url, state, abortControllerRef, isMountedRef, aborted, calls, r, req, toast>>

NextConfig ==
    \/ \E cfg \in ConfigValues : RenderConfig(cfg)
    \/ Execute
    \/ \E params \in OverrideParamValues : Mutate(params)
    \/ \E c \in ControllerIds, o \in HookOutcomes : AttemptSettles(c, o)
    \/ \E c \in ControllerIds : DelayElapses(c)

SpecConfig == InitConfig /\ [][NextConfig]_vars

TypeOK ==
    /\ abortControllerRef \in 0..MaxCalls
    /\ Len(calls) <= MaxCalls
    /\ state.loading \in BOOLEAN

----------------------------------------------------------------------------
(* Properties of the hooks, checked under Spec *)

Issued == 1..Len(calls)

\* this step issues a call
IssuesCall == Len(calls') = Len(calls) + 1

\* this step settles the promise of call c
Settles(c) == calls[c].promise = "pending" /\ calls'[c].promise # "pending"

\* a later call than c passed validation, so it installed its own controller
Superseded(c) == \E d \in (c + 1)..Len(calls) : calls[d].ctrl # 0

\* u is no usable url: not a string, empty, or whitespace only
NotAUrl(u) == u.t # "string" \/ \A i \in 1..Len(u.s) : u.s[i] = " "

\* the state a settlement of call c has to leave when it is allowed to write
SettledState(c) ==
    IF calls'[c].promise = "resolved"
    THEN [data |-> PayloadOf(c), loading |-> FALSE, error |-> NullError]
    ELSE [state EXCEPT !.loading = FALSE,
                       !.error = IF calls'[c].ex.phase = "rejected"
                                 THEN calls'[c].ex.error ELSE SerializationError]

\* C1 as stated: once any later call has been issued, the settlement of an
\* earlier call never changes {data, loading, error}.
C1_Original ==
    [][\A c \in Issued : (Settles(c) /\ Len(calls) > c) => state' = state]_vars

\* C1, amended: once a later call that passed validation has been issued, the
\* settlement of an earlier call never changes {data, loading, error}; the
\* state changes only when a call is issued, when the last call that passed
\* validation settles, or on reset() and cancel().
C1_StaleSettlementIgnored ==
    [][/\ \A c \in Issued : (Settles(c) /\ Superseded(c)) => state' = state
       /\ state' # state =>
            \/ IssuesCall
            \/ Reset
            \/ Cancel
            \/ \E c \in Issued : Settles(c) /\ ~Superseded(c)]_vars

C1_Witness ==
    \E c \in Issued :
        /\ calls[c].settledAs = "superseded"
        /\ calls[c].promise = "resolved"
        /\ state.data # PayloadOf(c)

\* C2: unmount sets mounted=false and aborts the current controller; while
\* the hook is unmounted no step changes {data, loading, error} and no call
\* invokes onSuccess or onError.
C2_UnmountSilences ==
    [][/\ (isMountedRef /\ ~isMountedRef') =>
            (abortControllerRef # 0 => aborted'[abortControllerRef])
       /\ ~isMountedRef' => state' = state
       /\ ~isMountedRef =>
            /\ ~isMountedRef'
            /\ \A c \in 1..Len(calls') :
                   calls'[c].cb = IF c \in Issued THEN calls[c].cb ELSE "none"]_vars

\* call 1 was in flight at unmount (it set the loading=true that is still
\* there) and settled afterwards; call 2 was issued after unmount (unmount
\* would have aborted its controller) and has resolved
C2_Witness ==
    /\ ~isMountedRef
    /\ Len(calls) = 2
    /\ state.loading
    /\ calls[1].settledAs = "unmounted" /\ calls[1].cb = "none"
    /\ abortControllerRef = 2 /\ ~aborted[2]
    /\ calls[2].promise = "resolved" /\ calls[2].cb = "none"

\* C3: at most one controller of the hook is un-aborted, and it is the
\* current one; every superseded controller is aborted.
C3_SingleLiveController ==
    /\ abortControllerRef # 0 =>
          abortControllerRef \in Issued /\ calls[abortControllerRef].ctrl = abortControllerRef
    /\ \A c \in Issued : (calls[c].ctrl = c /\ ~aborted[c]) => abortControllerRef = c

C3_Witness ==
    /\ Len(calls) >= 2
    /\ calls[1].ctrl = 1 /\ aborted[1] /\ calls[1].promise = "pending"
    /\ calls[2].ctrl = 2 /\ ~aborted[2] /\ abortControllerRef = 2

\* C4: cancel() with a current controller aborts it and, mounted, sets
\* loading=false leaving data and error as they were; with no controller it
\* changes nothing; the settlement of an aborted call changes no state field.
C4_CancelFrame ==
    [][/\ Cancel =>
            IF abortControllerRef = 0
            THEN UNCHANGED <<state, aborted, calls, abortControllerRef>>
            ELSE /\ aborted'[abortControllerRef]
                 /\ abortControllerRef' = abortControllerRef
                 /\ state' = IF isMountedRef
                             THEN [state EXCEPT !.loading = FALSE] ELSE state
       /\ \A c \in Issued : (Settles(c) /\ aborted[c]) => state' = state]_vars

C4_Witness ==
    \E c \in Issued :
        /\ calls[c].settledAs = "cancelled"
        /\ state.data # NullData
        /\ state.data # PayloadOf(c)
        /\ ~state.loading

\* C5: reset() on a mounted hook sets INITIAL_STATE and neither aborts nor
\* replaces the controller nor touches a request; a call in flight at reset()
\* stays current, and when it settles with the state still as reset() left it,
\* it writes its result into the state.
C5_ResetFrame ==
    [][/\ Reset =>
            /\ isMountedRef => state' = INITIAL_STATE
            /\ UNCHANGED <<abortControllerRef, aborted>>
            /\ \A c \in Issued : /\ calls'[c].ex = calls[c].ex
                                 /\ calls'[c].promise = calls[c].promise
       /\ \A c \in Issued :
            (Settles(c) /\ state = INITIAL_STATE /\ isMountedRef
                /\ ~aborted[c] /\ abortControllerRef = c)
            => state' = SettledState(c)]_vars

\* reset() has run while call c was in flight: only reset() leaves a mounted
\* hook with an un-aborted current request and loading=false, error=null
C5_Witness ==
    \E c \in Issued :
        /\ calls[c].promise = "pending"
        /\ calls[c].ex.phase = "waiting"
        /\ abortControllerRef = c
        /\ ~aborted[c]
        /\ isMountedRef
        /\ calls[1].cb = "onSuccess"
        /\ state = INITIAL_STATE

\* C6: a call that passes validation on a mounted hook sets loading=true,
\* error=null at its start; settling while current, un-aborted and mounted,
\* success sets {payload, false, null} and failure sets loading=false and the
\* error, keeping data; no other step of the call changes the state.
C6_CallLifecycle ==
    [][/\ (IssuesCall /\ calls'[Len(calls')].ctrl # 0 /\ isMountedRef) =>
            IF calls'[Len(calls')].promise = "pending"
            THEN state' = [state EXCEPT !.loading = TRUE, !.error = NullError]
            ELSE state' = [state EXCEPT !.loading = FALSE, !.error = SerializationError]
       /\ \A c \in Issued :
            (Settles(c) /\ isMountedRef /\ ~aborted[c] /\ abortControllerRef = c)
            => /\ state' = SettledState(c)
               /\ calls'[c].promise = "rejected" => state'.error = calls'[c].reason
       /\ \A c \in Issued :
            (/\ calls'[c].promise = "pending"
             /\ \/ DelayElapses(c)
                \/ TimeoutFires(c)
                \/ \E o \in HookOutcomes : AttemptSettles(c, o))
            => state' = state]_vars

C6_Witness ==
    \E c \in Issued :
        /\ calls[c].settledAs = "current"
        /\ calls[c].promise = "rejected"
        /\ calls[c].ex.phase = "rejected"
        /\ state.data # NullData
        /\ state.error = calls[c].reason
        /\ ~state.loading

\* C7: execute() with an empty or whitespace-only url rejects with the
\* validation error without invoking the transport, arming a timer or
\* registering an abort listener, and so does executeHttpRequest.
C7_ValidationShortCircuit ==
    /\ [](\A u \in ParamUrlValues, n \in RetriesValues, hasSignal \in BOOLEAN :
            NotAUrl(u) =>
                LET x == execStart(u, n, hasSignal)
                IN  /\ x.phase = "rejected"
                    /\ x.error = UrlEmptyError
                    /\ x.fetches = 0
                    /\ x.timer = "none"
                    /\ x.listeners = {})
    /\ [][(Execute /\ NotAUrl(url)) =>
            /\ IssuesCall
            /\ calls'[Len(calls')].promise = "rejected"
            /\ calls'[Len(calls')].reason = UrlEmptyError
            /\ calls'[Len(calls')].ex = ExIdle
            /\ \A c \in Issued : calls'[c] = calls[c]]_vars

C7_Witness ==
    /\ hookKind = "useApi"
    /\ \E c \in Issued :
        /\ calls[c].url = Str(<<" ", " ">>)
        /\ calls[c].promise = "rejected"
        /\ calls[c].reason = UrlEmptyError
        /\ calls[c].ex.fetches = 0

\* params that mutate() refuses: missing, not an object, or without a usable url
BadParams(params) == params.kind # "object" \/ NotAUrl(params.url)

\* C8: mutate(params) with missing or non-object params or an unusable url
\* sets state.error and rejects without touching the controller: nothing is
\* aborted or replaced, no controller is created, no transport is invoked.
C8_MutateValidationFrame ==
    [][\A params \in ParamValues :
        (Mutate(params) /\ BadParams(params)) =>
            /\ IssuesCall
            /\ UNCHANGED <<abortControllerRef, aborted>>
            /\ \A c \in Issued : calls'[c] = calls[c]
            /\ calls'[Len(calls')].ctrl = 0
            /\ calls'[Len(calls')].promise = "rejected"
            /\ calls'[Len(calls')].ex = ExIdle
            /\ isMountedRef =>
                  /\ state'.error = calls'[Len(calls')].reason
                  /\ state'.error # NullError
                  /\ state'.data = state.data]_vars

C8_Witness ==
    /\ hookKind = "useApiMutation"
    /\ isMountedRef
    /\ \E c \in Issued \ {1} :
        /\ calls[c].settledAs = "invalid"
        /\ calls[c - 1].promise = "pending"
        /\ calls[c - 1].ex.fetches = 1
        /\ abortControllerRef = c - 1
        /\ ~aborted[c - 1]
        /\ state.error = calls[c].reason

\* C9 as stated: a validation failure of execute() does not write loading.
C9_Original ==
    [][(Execute /\ NotAUrl(url)) => state'.loading = state.loading]_vars

\* C9, amended: a validation failure of execute() on a mounted hook sets
\* state.error to the validation error and loading to false, whatever loading
\* was, and leaves data unchanged; it never sets loading to true.
C9_ValidationFailureState ==
    [][(Execute /\ NotAUrl(url)) =>
            /\ isMountedRef =>
                  state' = [state EXCEPT !.error = UrlEmptyError, !.loading = FALSE]
            /\ ~state'.loading \/ ~isMountedRef]_vars

C9_Witness ==
    /\ hookKind = "useApi"
    /\ isMountedRef
    /\ \E c \in Issued \ {1} :
        /\ calls[c].settledAs = "invalid"
        /\ calls[c - 1].promise = "pending"
        /\ abortControllerRef = c - 1
        /\ ~aborted[c - 1]
        /\ state = [data |-> NullData, loading |-> FALSE, error |-> UrlEmptyError]

\* C18: a non-2xx response fails the attempt with an ApiError carrying the
\* status, the statusText and as data the body parsed as JSON, or the raw text
\* when it is not JSON; with retries=0 a 404 with body {"error":"not found"}
\* rejects the promise with status 404 and data.error 'not found', and the
\* state.error of the current, mounted hook is that same error.
C18_HttpErrorShape ==
    /\ [](\A b \in {JsonBody, TextBody} :
            LET err == handleResponseError(404, b)
            IN  /\ err.status = 404
                /\ err.statusText = "Not Found"
                /\ err.data = IF b = JsonBody THEN NotFoundObject ELSE TextBody
                /\ DataError(err.data) = IF b = JsonBody THEN "not found" ELSE "undefined")
    /\ [][\A c \in Issued, o \in HookOutcomes :
            (AttemptSettles(c, o) /\ o.k = "http" /\ calls[c].ex.maxAttempts = 1) =>
                /\ calls'[c].promise = "rejected"
                /\ calls'[c].reason.status = 404
                /\ calls'[c].reason.statusText = "Not Found"
                /\ DataError(calls'[c].reason.data) = "not found"
                /\ (isMountedRef /\ abortControllerRef = c /\ ~aborted[c]) =>
                      /\ state'.error = calls'[c].reason
                      /\ ~state'.loading]_vars

C18_Witness ==
    \E c \in Issued :
        /\ calls[c].ex.maxAttempts = 1
        /\ calls[c].ex.fetches = 1
        /\ calls[c].settledAs = "current"
        /\ calls[c].promise = "rejected"
        /\ calls[c].reason.status = 404
        /\ DataError(calls[c].reason.data) = "not found"
        /\ state.error = calls[c].reason

\* this step settles call c, which passed validation, by a rejection of its
\* executor call
ExecutorRejects(c) ==
    /\ Settles(c)
    /\ calls[c].ctrl # 0
    /\ calls'[c].ex.phase = "rejected"

\* the error the executor of call c rejected with is in the state and was
\* reported
Reflected(c) ==
    /\ state' = [state EXCEPT !.loading = FALSE, !.error = calls'[c].ex.error]
    /\ calls'[c].cb = "onError"
    /\ calls'[c].cbCalls = calls[c].cbCalls + 1

\* C19 as stated: on a mounted hook, the executor's rejection of a call that
\* no later call has superseded rejects the promise, is written to
\* state.error with loading=false and is reported through onError.
C19_Original ==
    [][\A c \in Issued :
        (ExecutorRejects(c) /\ isMountedRef /\ ~Superseded(c)) =>
            /\ calls'[c].promise = "rejected"
            /\ Reflected(c)]_vars

\* C19, amended: on a mounted hook, the executor's rejection of a call that
\* was neither superseded by a later call nor cancelled by cancel() rejects
\* the promise with that error, writes it to state.error with loading=false
\* and reports it through onError; the rejection of a superseded, cancelled
\* or unmounted call still rejects the promise, touches no state field and
\* reports nothing.
C19_ErrorsSurface ==
    [][\A c \in Issued :
        ExecutorRejects(c) =>
            /\ calls'[c].promise = "rejected"
            /\ calls'[c].reason = calls'[c].ex.error
            /\ IF isMountedRef /\ ~Superseded(c) /\ ~aborted[c]
               THEN Reflected(c)
               ELSE /\ state' = state
                    /\ calls'[c].cb = calls[c].cb
                    /\ calls'[c].cbCalls = calls[c].cbCalls
                    /\ ~isMountedRef \/ Superseded(c) \/ calls'[c].settledAs = "cancelled"]_vars

\* the timeout of the current call fired and its cancellation error is in
\* the state and was reported
C19_Witness ==
    \E c \in Issued :
        /\ calls[c].settledAs = "current"
        /\ calls[c].ex.timer = "fired"
        /\ calls[c].reason = CancelledError
        /\ calls[c].cb = "onError"
        /\ state.error = CancelledError
        /\ ~state.loading
        /\ isMountedRef

\* the first config callback of call c is invoked in this step
InvokesCallback(c) ==
    /\ calls'[c].cbCalls > 0
    /\ c \in Issued => calls[c].cbCalls = 0

ApiErrorShaped(e) ==
    /\ e.name \in {"ApiError", "AbortError", "TypeError", "Error"}
    /\ e.message \notin {"undefined", "null"}

\* an executeHttpRequest call without retries, whatever its url and whatever
\* the transport answers: it resolves with the data of the response or
\* rejects with an object that has a message
ExecutorSettlesShaped ==
    \A u \in ParamUrlValues, hasSignal \in BOOLEAN, o \in Outcomes :
        LET x == execStart(u, 0, hasSignal)
            y == IF x.phase = "fetching" THEN execAttemptSettle(x, o) ELSE x
        IN  /\ y.phase \in {"resolved", "rejected"}
            /\ y.phase = "resolved" => y.data = o.p
            /\ y.phase = "rejected" => ApiErrorShaped(y.error)

\* C21: the promise of every execute() and mutate() call resolves with the
\* payload of its response or rejects with an object that has a message, on
\* every path: validation failure, serialization failure, executor failure,
\* cancellation, supersession and unmount. The same holds of every
\* executeHttpRequest call, whatever the transport rejects with: the url of
\* the call fails validation, or its attempt settles and the call resolves
\* with the data of the response or rejects with an object that has a message.
C21_PromisesSettleShaped ==
    /\ \A c \in Issued :
          /\ calls[c].promise = "resolved" => calls[c].value = PayloadOf(c)
          /\ calls[c].promise = "rejected" => ApiErrorShaped(calls[c].reason)
    /\ ExecutorSettlesShaped

\* a mutate() call was superseded by one whose body could not be serialized:
\* the first rejected with the cancellation error without touching the state,
\* the second with the serialization error
C21_Witness ==
    /\ Len(calls) = 2
    /\ calls[1].promise = "rejected"
    /\ calls[1].settledAs = "superseded"
    /\ calls[1].reason = CancelledError
    /\ calls[2].promise = "rejected"
    /\ calls[2].reason = SerializationError

\* C22: a hook always uses the config of its latest render. The options of
\* the request (here retries) that a call hands to the executor are those of
\* the config supplied by the latest render before the call starts, unless
\* the params of mutate() carry the option; the onSuccess / onError a call
\* invokes is the one of the config the hook holds when the call settles,
\* also when that config was supplied after the call started.
C22_LatestConfig ==
    [][LET n == Len(calls) + 1
       IN  /\ Execute => calls'[n].ex.maxAttempts = config.retries + 1
           /\ \A params \in OverrideParamValues :
                 (Mutate(params) /\ params.retries = AbsentRetries) =>
                     calls'[n].ex.maxAttempts = config.retries + 1
           /\ \A c \in Issued :
                 InvokesCallback(c) =>
                     calls'[c].cbThrew = (config.callbacks = "throw")]_vars

\* execute() started under a config with retries = 1 and callbacks that
\* return; the owner rendered a config with callbacks that throw; the call
\* settled after its second attempt and invoked a callback that threw
C22_Witness ==
    /\ hookKind = "useApi"
    /\ Len(calls) >= 1
    /\ calls[1].ex.maxAttempts = 2
    /\ calls[1].ex.fetches = 2
    /\ config = [retries |-> 0, callbacks |-> "throw"]
    /\ calls[1].cbCalls = 1
    /\ calls[1].cbThrew

\* C23 as stated: every field of params other than url and body overrides
\* the same field of the base config for that call only: the call runs with
\* the retries of its params and invokes the onSuccess / onError of its
\* params when it has them, the base config is left as it was, and a call
\* without the field runs with the base value.
C23_Original ==
    [][LET n == Len(calls) + 1
       IN  /\ \A params \in OverrideParamValues :
                 Mutate(params) =>
                     /\ calls'[n].ex.maxAttempts =
                            (IF params.retries = AbsentRetries
                             THEN config.retries ELSE params.retries) + 1
                     /\ config' = config
           /\ \A c \in Issued :
                 (InvokesCallback(c) /\ hookKind = "useApiMutation") =>
                     calls'[c].cbThrew =
                        ((IF calls[c].requestConfig.callbacks = AbsentCallbacks
                          THEN config.callbacks
                          ELSE calls[c].requestConfig.callbacks) = "throw")]_vars

\* JSON.parse, the deserialization the round trip of C24 is about, on the
\* JSON texts of the model: null, non-negative integers, strings with the
\* escapes \" and \\, arrays and objects, with blanks between the tokens.
\* A parse gives [ok, v, rest]: whether a value was read, the value, and the
\* text after it.
ParseFailure == [ok |-> FALSE, v |-> JsUndefined, rest |-> <<>>]
Parsed(v, rest) == [ok |-> TRUE, v |-> v, rest |-> rest]

DigitChars == {"0", "1", "2", "3", "4", "5", "6", "7", "8", "9"}

RECURSIVE skipBlanks(_)
skipBlanks(s) ==
    IF s # <<>> /\ Head(s) = " " THEN skipBlanks(Tail(s)) ELSE s

\* the characters of a string literal after its opening quote
RECURSIVE parseString(_, _)
parseString(s, acc) ==
    IF s = <<>> THEN ParseFailure
    ELSE IF Head(s) = "\"" THEN Parsed(JsString(acc), Tail(s))
    ELSE IF Head(s) = "\\"
    THEN IF Len(s) >= 2 /\ s[2] \in {"\"", "\\"}
         THEN parseString(drop(s, 2), Append(acc, s[2]))
         ELSE ParseFailure
    ELSE parseString(Tail(s), Append(acc, Head(s)))

RECURSIVE digitsPrefix(_)
digitsPrefix(s) ==
    IF s # <<>> /\ Head(s) \in DigitChars
    THEN <<Head(s)>> \o digitsPrefix(Tail(s))
    ELSE <<>>

\* an integer literal: no leading zero
parseNumber(s) ==
    LET digits == digitsPrefix(s)
    IN  IF Len(digits) > 1 /\ Head(digits) = "0" THEN ParseFailure
        ELSE Parsed(JsNumber(digits), drop(s, Len(digits)))

RECURSIVE parseValue(_)
RECURSIVE parseElements(_, _)
RECURSIVE parseProperties(_, _)
parseValue(text) ==
    LET s == skipBlanks(text)
    IN  IF s = <<>> THEN ParseFailure
        ELSE IF startsWith(s, <<"n", "u", "l", "l">>) THEN Parsed(JsNull, drop(s, 4))
        ELSE IF Head(s) = "\"" THEN parseString(Tail(s), <<>>)
        ELSE IF Head(s) \in DigitChars THEN parseNumber(s)
        ELSE IF Head(s) = "["
        THEN LET t == skipBlanks(Tail(s))
             IN  IF t # <<>> /\ Head(t) = "]" THEN Parsed(JsArray(<<>>), Tail(t))
                 ELSE parseElements(t, <<>>)
        ELSE IF Head(s) = "{"
        THEN LET t == skipBlanks(Tail(s))
             IN  IF t # <<>> /\ Head(t) = "}" THEN Parsed(JsObject(<<>>), Tail(t))
                 ELSE parseProperties(t, <<>>)
        ELSE ParseFailure

parseElements(s, acc) ==
    LET element == parseValue(s)
        t == skipBlanks(element.rest)
    IN  IF ~element.ok \/ t = <<>> THEN ParseFailure
        ELSE IF Head(t) = "," THEN parseElements(Tail(t), Append(acc, element.v))
        ELSE IF Head(t) = "]" THEN Parsed(JsArray(Append(acc, element.v)), Tail(t))
        ELSE ParseFailure

parseProperties(s, acc) ==
    LET s1 == skipBlanks(s)
        key == IF s1 # <<>> /\ Head(s1) = "\"" THEN parseString(Tail(s1), <<>>)
               ELSE ParseFailure
        s2 == skipBlanks(key.rest)
        value == IF key.ok /\ s2 # <<>> /\ Head(s2) = ":" THEN parseValue(Tail(s2))
                 ELSE ParseFailure
        t == skipBlanks(value.rest)
    IN  IF ~value.ok \/ t = <<>> THEN ParseFailure
        ELSE IF Head(t) = ","
        THEN parseProperties(Tail(t), Append(acc, <<key.v.s, value.v>>))
        ELSE IF Head(t) = "}"
        THEN Parsed(JsObject(Append(acc, <<key.v.s, value.v>>)), Tail(t))
        ELSE ParseFailure

\* JSON.parse(serialized) throws: the body is no string, or no JSON text
deserializeThrows(serialized) ==
    \/ serialized.t # "string"
    \/ LET p == parseValue(serialized.s)
       IN  ~p.ok \/ skipBlanks(p.rest) # <<>>

deserialize(serialized) == parseValue(serialized.s).v

\* x is a JSON value: null, a number, a string, or an array or object of
\* JSON values
RECURSIVE JSONrepresentable(_)
JSONrepresentable(x) ==
    CASE x.t \in {"null", "number", "string"} -> TRUE
      [] x.t \in {"array", "object"} ->
            \A i \in 1..Len(x.items) : JSONrepresentable(x.items[i].val)
      [] OTHER -> FALSE

\* serialize(deserialize(serialize(x))) = serialize(x)
RoundTrips(x) ==
    /\ ~serializeThrows(x)
    /\ ~deserializeThrows(serializeRequestBody(x))
    /\ ~serializeThrows(deserialize(serializeRequestBody(x)))
    /\ serializeRequestBody(deserialize(serializeRequestBody(x))) = serializeRequestBody(x)

\* what C24 says of serializeRequestBody apart from the round trip, and of
\* mutate() when the serialization throws
PassesOrStringifies ==
    \A x \in BodyValues :
        /\ x.t \in {"undefined", "string", "FormData", "URLSearchParams"} =>
              ~serializeThrows(x) /\ serializeRequestBody(x) = x
        /\ x.t \notin {"undefined", "string", "FormData", "URLSearchParams"} =>
              /\ serializeThrows(x) = stringifyThrows(x)
              /\ ~serializeThrows(x) => serializeRequestBody(x) = JSONstringify(x)
        /\ ~serializeThrows(x) =>
              /\ ~serializeThrows(serializeRequestBody(x))
              /\ serializeRequestBody(serializeRequestBody(x)) = serializeRequestBody(x)

\* the round trip for every JSON-representable value
RoundTripsAll ==
    \A x \in BodyValues : JSONrepresentable(x) => RoundTrips(x)

\* the round trip for every JSON-representable value that is not a string
RoundTripsExceptStrings ==
    \A x \in BodyValues : (JSONrepresentable(x) /\ x.t # "string") => RoundTrips(x)

SerializationRules ==
    /\ [](PassesOrStringifies)
    /\ [][\A params \in ParamValues :
            (/\ Mutate(params)
             /\ ~BadParams(params)
             /\ serializeThrows(params.body)) =>
                /\ calls'[Len(calls')].promise = "rejected"
                /\ calls'[Len(calls')].reason = SerializationError
                /\ calls'[Len(calls')].ex = ExIdle]_vars
    /\ [](\A c \in Issued :
            calls[c].reason = SerializationError => calls[c].ex.fetches = 0)

\* C24 as stated: the rules of serializeRequestBody, and the round trip
\* serialize(deserialize(serialize(x))) = serialize(x) for every
\* JSON-representable x.
C24_Original ==
    /\ SerializationRules
    /\ [](RoundTripsAll)

\* C24: serializeRequestBody hands undefined, strings, FormData and
\* URL-encoded payloads on as they are and JSON-stringifies every other
\* value; it is idempotent; serialize(deserialize(serialize(x))) =
\* serialize(x) for every JSON-representable x that is not itself a string;
\* when the stringification throws, it throws, mutate() rejects with the
\* serialization error and the transport is never invoked for that call.
C24_Serialization ==
    /\ SerializationRules
    /\ [](RoundTripsExceptStrings)

\* mutate() was called with a circular body: the call rejected with the
\* serialization error and made no transport attempt
C24_Witness ==
    /\ \E c \in Issued :
          /\ calls[c].promise = "rejected"
          /\ calls[c].reason = SerializationError
          /\ calls[c].ex.fetches = 0
    /\ \E x \in BodyValues :
          /\ x.t = "object"
          /\ JSONrepresentable(x)
          /\ serializeRequestBody(x).s # <<"{", "}">>
          /\ RoundTrips(x)

\* C25: a call invokes onSuccess / onError only if, when its executor call
\* settles (or its serialization fails), its controller is un-aborted and is
\* the current one and the hook is mounted, and only together with its state
\* write: the state it leaves is the one the call wrote. A call that settles
\* aborted (superseded, cancelled) or on an unmounted hook still settles its
\* promise, invokes no callback then or later, and leaves the state alone.
C25_CallbackGate ==
    [][\A c \in 1..Len(calls') :
        /\ (c \in Issued /\ InvokesCallback(c)) =>
              /\ ~aborted[c]
              /\ abortControllerRef = c
              /\ isMountedRef
              /\ Settles(c)
              /\ state' = SettledState(c)
        /\ (c \notin Issued /\ InvokesCallback(c)) =>
              /\ ~aborted'[c]
              /\ abortControllerRef' = c
              /\ isMountedRef
              /\ calls'[c].promise = "rejected"
              /\ state' = SettledState(c)
        /\ (c \in Issued /\ Settles(c)
               /\ (aborted[c] \/ abortControllerRef # c \/ ~isMountedRef)) =>
              /\ calls'[c].promise \in {"resolved", "rejected"}
              /\ calls'[c].cbCalls = 0
              /\ state' = state
        /\ (c \in Issued /\ calls[c].promise # "pending") =>
              calls'[c].cbCalls = calls[c].cbCalls]_vars

\* call 1 was superseded and settled without a callback; call 2 settled as
\* the current call of the mounted hook and invoked its callback
C25_Witness ==
    /\ Len(calls) = 2
    /\ calls[1].settledAs = "superseded"
    /\ calls[1].promise = "resolved"
    /\ calls[1].cbCalls = 0
    /\ calls[2].settledAs = "current"
    /\ calls[2].cbCalls = 1
    /\ state.data = PayloadOf(2)

\* where the executor call of call c stands, "idle" before c is issued
ExecutorPhase(c) == IF c \in Issued THEN calls[c].ex.phase ELSE "idle"

\* C26: when timers fire and the transport rejects an attempt whose signal
\* is aborted, every executor call that was started eventually settles, and
\* on a hook that stays mounted every state with loading = true is
\* eventually followed by a state with loading = false. An executor call
\* that is in flight never becomes idle again, so it settles exactly when it
\* is, again and again, not in flight; and loading = true is always followed
\* by loading = false or an unmount exactly when one of the two holds again
\* and again.
C26_EventuallySettles ==
    /\ \A c \in ControllerIds :
          []<>(ExecutorPhase(c) \notin {"fetching", "waiting"})
    /\ []<>(~state.loading \/ ~isMountedRef)

\* the transport never answered call 1: its timeout fired, the transport
\* rejected its attempts, and the call, still the current one of the mounted
\* hook, wrote the cancellation error with loading = false
C26_Witness ==
    /\ isMountedRef
    /\ Len(calls) >= 1
    /\ calls[1].ex.timer = "fired"
    /\ calls[1].ex.phase = "rejected"
    /\ calls[1].ex.fetches = 2
    /\ calls[1].settledAs = "current"
    /\ state.error = CancelledError
    /\ ~state.loading

----------------------------------------------------------------------------
(* one call of retry(fn, options) *)

HookIdle ==
    /\ hookKind = "useApi"
    /\ url = Undefined
    /\ config = [retries |-> 0, callbacks |-> "return"]
    /\ state = INITIAL_STATE
    /\ abortControllerRef = 0
    /\ isMountedRef = TRUE
    /\ aborted = [c \in ControllerIds |-> FALSE]
    /\ calls = <<>>

InitRetry ==
    /\ HookIdle
    /\ r \in {retryStart(opts) : opts \in RetryOptions}
    /\ req = NoExec
    /\ toast = NoToasts

FnResolves ==
    /\ r.pc = "fn"
    /\ r' = retryFnResolves(r)
    /\ UNCHANGED <<hookVars, req, toast>>

FnRejects ==
    /\ r.pc = "fn"
    /\ r' = retryFnRejects(r)
    /\ UNCHANGED <<hookVars, req, toast>>

RetryDelayElapses ==
    /\ r.pc = "delay"
    /\ r' = retryDelayElapsed(r)
    /\ UNCHANGED <<hookVars, req, toast>>

NextRetry == FnResolves \/ FnRejects \/ RetryDelayElapses

SpecRetry == InitRetry /\ [][NextRetry]_vars

----------------------------------------------------------------------------
(* src/unnamed/part_005: executeHttpRequest(url, config, signal?), one call *)

\* the urls of direct calls: the urls of the hooks, absolute urls with the
\* schemes http, https and ftp, and a relative url that begins with "http"
ExecUrlValues ==
    UrlValues
    \cup { Str(<<"/", "a">>),
           Str(<<"h", "t", "t", "p", ":", "/", "/", "a">>),
           Str(<<"h", "t", "t", "p", "s", ":", "/", "/", "a">>),
           Str(<<"f", "t", "p", ":", "/", "/", "a">>),
           Str(<<"h", "t", "t", "p", "-", "a">>) }

\* the configs of direct calls; the defaults stand for a config without the
\* field
ExecConfigValues ==
    { ExecConfig(b, n, d) :
        b \in {DefaultBaseUrl, <<"h", "t", "t", "p", ":", "/", "/", "b">>},
        n \in RetriesValues \cup {2, 0 - 1, 0 - 2},
        d \in {DefaultRetryDelay, 100} }

\* the caller passes no signal, a signal not aborted yet, or one already aborted
InitExec ==
    /\ HookIdle
    /\ r = 0
    /\ toast = NoToasts
    /\ req \in {[x |-> execStartWith(u, cfg, hasSignal), signalAborted |-> pre,
                 url |-> u, config |-> cfg] :
                u \in ExecUrlValues, cfg \in ExecConfigValues,
                hasSignal \in BOOLEAN, pre \in BOOLEAN}
    /\ req.signalAborted => req.x.hasSignal

\* the transport settles the attempt in flight with outcome o
ExecAttemptSettles(o) ==
    /\ req.x.phase = "fetching"
    /\ o \in OutcomesFor(req.x)
    /\ req' = [req EXCEPT !.x = execAttemptSettle(@, o)]
    /\ UNCHANGED <<hookVars, r, toast>>

\* the backoff wait is over
ExecDelayElapses ==
    /\ req.x.phase = "waiting"
    /\ req' = [req EXCEPT !.x = execDelayElapsed(@)]
    /\ UNCHANGED <<hookVars, r, toast>>

\* the rejection of retry, which threw without invoking fn, reaches the
\* catch and finally blocks of the call
ExecRetryThrew ==
    /\ req.x.phase = "unwinding"
    /\ req' = [req EXCEPT !.x = execRetryThrew(@)]
    /\ UNCHANGED <<hookVars, r, toast>>

\* the timeout timer fires: a timer callback runs only after the pending
\* continuations of the call
ExecTimeoutFires ==
    /\ req.x.timer = "armed"
    /\ req.x.phase # "unwinding"
    /\ req' = [req EXCEPT !.x = execTimeout(@)]
    /\ UNCHANGED <<hookVars, r, toast>>

\* the caller aborts the signal it passed
SignalAborts ==
    /\ req.x.hasSignal
    /\ ~req.signalAborted
    /\ req' = [req EXCEPT !.signalAborted = TRUE, !.x = handleAbort(@, "signal")]
    /\ UNCHANGED <<hookVars, r, toast>>

NextExec ==
    \/ \E o \in Outcomes : ExecAttemptSettles(o)
    \/ ExecRetryThrew
    \/ ExecDelayElapses
    \/ ExecTimeoutFires
    \/ SignalAborts

SpecExec == InitExec /\ [][NextExec]_vars

----------------------------------------------------------------------------
(* Properties of executeHttpRequest, checked under SpecExec *)

\* the executor call is running: its promise has not settled
InProgress == req.x.phase \in {"fetching", "waiting", "unwinding"}

\* this step starts a transport attempt
StartsAttempt == req'.x.fetches > req.x.fetches

\* C13 as stated: the call goes on to a backoff wait and a further transport
\* attempt only after an HTTP-status failure or a network failure, never
\* after a cancellation (an attempt rejected with an AbortError); a parse
\* failure ends the call at once; at most retries+1 attempts are made.
C13_Original ==
    [][/\ \A o \in Outcomes :
            (ExecAttemptSettles(o) /\ o.k \in {"ok", "unparsable", "abort"}) =>
                /\ req'.x.phase \in {"resolved", "rejected"}
                /\ req'.x.fetches = req.x.fetches
       /\ StartsAttempt => req.x.phase = "waiting" /\ req.x.attempt < req.x.maxAttempts]_vars

\* C14 as stated: once the effective signal is aborted no further transport
\* attempt is started for the call.
C14_Original ==
    [][StartsAttempt => ~effectiveAborted(req.x)]_vars

\* C15 as stated, for a call with a transport attempt in flight: when the
\* effective signal of the call has been aborted, by the caller's signal or
\* by the timeout, whichever came first, and the call then rejects, it
\* rejects with the cancellation error and never with the network-failure
\* error.
C15_Original ==
    [][(req.x.phase = "fetching" /\ effectiveAborted(req.x)
          /\ req'.x.phase = "rejected") =>
            /\ req'.x.error = CancelledError
            /\ req'.x.error # NetworkError]_vars

\* C16 as stated: while the call runs, the effective signal is aborted exactly
\* when the caller's signal or the timeout controller is, whatever the state
\* of the caller's signal was when the executor was called; without a caller
\* signal it is the timeout controller's signal.
C16_Original ==
    InProgress =>
        effectiveAborted(req.x) = (req.signalAborted \/ req.x.timeoutAborted)

\* C17: once the promise of a call that armed the timer has settled, on any
\* path, the timer is cleared or has fired before, no abort listener is left
\* registered, and the timer does not fire afterwards.
C17_CleanupOnExit ==
    /\ []((req.x.phase \in {"resolved", "rejected"}) =>
            /\ req.x.timer # "armed"
            /\ req.x.listeners = {})
    /\ [][(req.x.phase \in {"resolved", "rejected"}) =>
            /\ req'.x.timer = req.x.timer
            /\ req'.x.listeners = req.x.listeners]_vars
    /\ [][(InProgress /\ req'.x.phase \in {"resolved", "rejected"}) =>
            /\ req.x.timer = "armed" => req'.x.timer = "cleared"
            /\ req'.x.listeners = {}]_vars

\* a call with a caller signal rejected by a parse failure while its timer
\* was armed and both listeners were registered
C17_Witness ==
    /\ req.x.phase = "rejected"
    /\ req.x.error = ParseError(200)
    /\ req.x.hasSignal
    /\ req.x.timer = "cleared"
    /\ req.x.listeners = {}
    /\ ~req.signalAborted

----------------------------------------------------------------------------
(* Properties of retry, checked under SpecRetry *)

\* C10: fn is invoked at most maxAttempts times, one attempt at a time, the
\* next one only after the previous one failed and its delay elapsed; the
\* first success is returned at once and nothing is invoked after it.
C10_RetrySequential ==
    /\ [](/\ r.fnCalls <= (IF r.opts.maxAttempts > 0 THEN r.opts.maxAttempts ELSE 0)
          /\ r.pc = "fn" => r.fnCalls = r.attempt
          /\ r.pc = "returned" =>
                /\ r.result = FnValue(r.attempt)
                /\ r.fnCalls = r.attempt
                /\ Len(r.delays) = r.attempt - 1)
    /\ [][/\ r'.fnCalls # r.fnCalls =>
                /\ r.pc = "delay"
                /\ r'.fnCalls = r.fnCalls + 1
                /\ r.lastError = FnError(r.fnCalls)
                /\ Len(r.delays) = r.fnCalls
          /\ r.result # NoValue => r' = r
          /\ r'.result # NoValue =>
                /\ r'.pc = "returned"
                /\ r'.fnCalls = r.fnCalls
                /\ r'.onErrorCalls = r.onErrorCalls
                /\ r'.delays = r.delays]_vars

C10_Witness ==
    /\ r.pc = "returned"
    /\ r.attempt = 2
    /\ r.opts.maxAttempts = 3
    /\ r.fnCalls = 2

\* C11: after failed attempt k < maxAttempts, onError (when given) is invoked
\* with that attempt's error and k, and when it returns the wait before
\* attempt k+1 is delayMs * 2^(k-1) with backoff and delayMs without; with
\* maxAttempts=3, delayMs=100, backoff: two failures then a success wait 100
\* then 200 and return the third attempt's value.
C11_RetryBackoff ==
    /\ [][(FnRejects /\ r.attempt < r.opts.maxAttempts) =>
            /\ r.opts.onError # "none" =>
                  r'.onErrorCalls = Append(r.onErrorCalls,
                                           OnErrorCall(FnError(r.attempt), r.attempt))
            /\ r.opts.onError = "none" => r'.onErrorCalls = r.onErrorCalls
            /\ r.opts.onError # "throws" =>
                  /\ r'.pc = "delay"
                  /\ r'.fnCalls = r.fnCalls
                  /\ r'.delays = Append(r.delays,
                        IF r.opts.backoff
                        THEN CASE r.attempt = 1 -> r.opts.delayMs
                               [] r.attempt = 2 -> r.opts.delayMs + r.opts.delayMs
                               [] r.attempt = 3 -> 4 * r.opts.delayMs
                               [] OTHER -> 8 * r.opts.delayMs
                        ELSE r.opts.delayMs)]_vars
    /\ [][r'.fnCalls = r.fnCalls + 1 =>
            /\ r.pc = "delay"
            /\ Len(r.delays) = r.attempt
            /\ r'.attempt = r.attempt + 1
            /\ r'.delays = r.delays]_vars
    /\ []((/\ r.pc = "returned" /\ r.attempt = 3
            /\ r.opts.maxAttempts = 3 /\ r.opts.delayMs = 100 /\ r.opts.backoff
            /\ r.opts.onError # "throws")
           => r.delays = <<100, 200>> /\ r.result = FnValue(3))

C11_Witness ==
    /\ r.pc = "returned"
    /\ r.opts = [maxAttempts |-> 3, delayMs |-> 100, backoff |-> TRUE, onError |-> "returns"]
    /\ r.delays = <<100, 200>>
    /\ r.onErrorCalls = <<OnErrorCall(FnError(1), 1), OnErrorCall(FnError(2), 2)>>
    /\ r.result = FnValue(3)

\* C12: when all maxAttempts >= 1 attempts fail, retry rejects with the error
\* of the last attempt, onError has been invoked for the earlier attempts
\* only, and the rejection follows the last failure with no delay after it.
C12_RetryExhaustion ==
    /\ []((r.pc = "thrown" /\ r.opts.maxAttempts >= 1 /\ r.fnCalls = r.opts.maxAttempts
              /\ r.lastError = FnError(r.opts.maxAttempts))
           => /\ r.error = FnError(r.opts.maxAttempts)
              /\ Len(r.delays) = r.opts.maxAttempts - 1
              /\ \A i \in 1..Len(r.onErrorCalls) :
                    r.onErrorCalls[i].attempt < r.opts.maxAttempts)
    /\ [][(FnRejects /\ r.attempt = r.opts.maxAttempts) =>
            /\ r'.pc = "thrown"
            /\ r'.error = FnError(r.attempt)
            /\ r'.onErrorCalls = r.onErrorCalls
            /\ r'.delays = r.delays]_vars

C12_Witness ==
    /\ r.pc = "thrown"
    /\ r.opts.maxAttempts = 2
    /\ r.opts.onError = "returns"
    /\ r.fnCalls = 2
    /\ r.error = FnError(2)
    /\ r.onErrorCalls = <<OnErrorCall(FnError(1), 1)>>
    /\ Len(r.delays) = 1

\* C27: an executor call whose url passes validation, made with
\* retries = r >= 0, invokes the transport at least once and at most r + 1 times; with r = 0 it
\* invokes it exactly once and never waits; the wait that follows failed
\* attempt k, before attempt k + 1, is retryDelay * 2^(k-1).
C27_AttemptBounds ==
    /\ []((~validateUrlThrows(req.url) /\ req.config.retries >= 0) =>
            /\ req.x.fetches >= 1
            /\ req.x.fetches <= req.config.retries + 1
            /\ req.x.fetches = req.x.attempt
            /\ req.config.retries = 0 =>
                  /\ req.x.fetches = 1
                  /\ req.x.wait = 0
                  /\ req.x.phase # "waiting")
    /\ [][(req.x.phase = "fetching" /\ req'.x.phase = "waiting") =>
            req'.x.wait = req.config.retryDelay * pow2(req.x.attempt - 1)]_vars
    /\ [][StartsAttempt =>
            /\ req.x.phase = "waiting"
            /\ req'.x.attempt = req.x.attempt + 1
            /\ req'.x.wait = req.x.wait]_vars

\* a call with retries = 2 and retryDelay = 100 made all three attempts: its
\* second wait was 200 ms
C27_Witness ==
    /\ req.config.retries = 2
    /\ req.config.retryDelay = 100
    /\ req.x.fetches = 3
    /\ req.x.wait = 200
    /\ req.x.phase = "rejected"

\* the errors and thrown values of the model
ErrorValues ==
    {AttemptError(o) : o \in {q \in Outcomes : q.k \notin {"ok", "unparsable"}}}
    \cup {ParseError(200), UrlEmptyError, SerializationError, CancelledError,
           NetworkError, NullError, Thrown("boom")}

\* C28: what a call that fails rejects with. An AbortError becomes the
\* cancellation ApiError; a TypeError of fetch, or an Error whose message
\* names fetch, becomes the network-failure ApiError; an HTTP error and a
\* parse error, being ApiError objects, pass through unchanged with their
\* status and data, and so does any other Error instance; any other value v
\* becomes {message: unknown error, data: v}. toApiError is idempotent.
C28_ErrorClassification ==
    /\ [][\A o \in Outcomes :
            (ExecAttemptSettles(o) /\ req'.x.phase = "rejected") =>
                CASE o.k = "abort" -> req'.x.error = CancelledError
                  [] o.k = "network" -> req'.x.error = NetworkError
                  [] o.k = "http" ->
                        /\ req'.x.error = handleResponseError(o.s, o.p)
                        /\ req'.x.error.status = o.s
                        /\ req'.x.error.message =
                              "HTTP " \o ToString(o.s) \o ": " \o StatusTextOf(o.s)
                  [] o.k = "unparsable" ->
                        /\ req'.x.error = ParseError(o.s)
                        /\ req'.x.error.status = o.s
                  [] o.k = "error" ->
                        req'.x.error = IF o.p = "fetch failed" THEN NetworkError
                                       ELSE Err("Error", o.p, 0, "undefined")
                  [] o.k = "thrown" ->
                        /\ req'.x.error.message = "unknown error"
                        /\ req'.x.error.data = o.p
                        /\ req'.x.error.name = "ApiError"]_vars
    /\ [](\A v \in ErrorValues :
            /\ toApiError(toApiError(v)) = toApiError(v)
            /\ v.name = "ApiError" => toApiError(v) = v)

\* the transport rejected with the string 'boom', a value without a message:
\* the call rejected with the unknown-error ApiError that carries it
C28_Witness ==
    /\ req.x.phase = "rejected"
    /\ req.x.error = createApiError("unknown error", 0, "boom")
    /\ req.x.fetches = 1

\* the string begins with a URI scheme: a letter, then letters, digits, "+",
\* "-" or ".", then ":"
Letters ==
    {"a", "b", "c", "d", "e", "f", "g", "h", "i", "j", "k", "l", "m",
     "n", "o", "p", "q", "r", "s", "t", "u", "v", "w", "x", "y", "z"}

hasScheme(s) ==
    \E i \in 2..Len(s) :
        /\ s[i] = ":"
        /\ s[1] \in Letters
        /\ \A j \in 2..(i - 1) : s[j] \in Letters \cup DigitChars \cup {"+", "-", "."}

\* C29 as stated: the url the executor requests is the url itself exactly
\* when the url already has a scheme, and config.baseUrl followed by the url
\* otherwise, with baseUrl defaulting to the empty string.
C29_Original ==
    (req.x.phase # "idle" /\ ~validateUrlThrows(req.url)) =>
        req.x.fullUrl = IF hasScheme(req.url.s) THEN req.url.s
                        ELSE req.config.baseUrl \o req.url.s

\* a request of the hook is in flight: there is a current controller, it is
\* not aborted, and the call that installed it has not settled
RequestInFlight ==
    /\ abortControllerRef # 0
    /\ ~aborted[abortControllerRef]
    /\ calls[abortControllerRef].promise = "pending"

\* C30: on a mounted hook loading = true implies that a current controller
\* exists, is un-aborted and belongs to a call still in flight; and the
\* converse does not hold: a reset() or a call that fails validation while a
\* request is in flight leaves the request in flight with loading = false.
C30_LoadingImpliesInFlight ==
    /\ []((isMountedRef /\ state.loading) => RequestInFlight)
    /\ [][(isMountedRef /\ RequestInFlight
              /\ (Reset \/ \E e \in {UrlEmptyError, MissingParamsError, ParamsNotObjectError} :
                              \E u \in ParamUrlValues : failValidation(u, e)))
            => (RequestInFlight' /\ ~state'.loading)]_vars

\* a mounted hook that is loading for its second call, the first one aborted
C30_Witness ==
    /\ isMountedRef
    /\ state.loading
    /\ abortControllerRef = 2
    /\ aborted[1]
    /\ calls[2].ex.phase \in {"fetching", "waiting"}

\* this step settles call c, the current call of a mounted hook, by the
\* executor's rejection with the cancellation error
CancellationSettles(c) ==
    /\ ExecutorRejects(c)
    /\ calls'[c].ex.error = CancelledError
    /\ isMountedRef
    /\ abortControllerRef = c

\* C31: when the executor of the current call of a mounted hook rejects with
\* the cancellation error, the promise rejects with that error in both cases.
\* If the hook's controller is not aborted, the timeout timer of the call has
\* fired, and the error is written to the state with loading=false, data
\* kept, and reported through onError. If cancel() aborted the controller,
\* the state (state.error included) is left as it is and no callback is
\* invoked.
C31_TimeoutVersusCancel ==
    [][\A c \in Issued :
        CancellationSettles(c) =>
            /\ calls'[c].promise = "rejected"
            /\ calls'[c].reason = CancelledError
            /\ IF ~aborted[c]
               THEN /\ calls[c].ex.timer = "fired"
                    /\ state' = [state EXCEPT !.loading = FALSE, !.error = CancelledError]
                    /\ calls'[c].cb = "onError"
                    /\ calls'[c].cbCalls = calls[c].cbCalls + 1
                    /\ calls'[c].settledAs = "current"
               ELSE /\ state' = state
                    /\ calls'[c].cb = calls[c].cb
                    /\ calls'[c].cbCalls = calls[c].cbCalls
                    /\ calls'[c].settledAs = "cancelled"]_vars

\* two calls of a mounted hook rejected with the cancellation error: the
\* first after cancel() without a callback, the second, after its timeout
\* fired, with onError and the error in the state
C31_Witness ==
    /\ isMountedRef
    /\ Len(calls) = 2
    /\ calls[1].settledAs = "cancelled"
    /\ calls[1].reason = CancelledError
    /\ calls[1].cbCalls = 0
    /\ calls[2].settledAs = "current"
    /\ calls[2].ex.timer = "fired"
    /\ calls[2].reason = CancelledError
    /\ calls[2].cb = "onError"
    /\ state.error = CancelledError
    /\ ~state.loading

\* this step settles call c by a resolution that is written to the state: c
\* is the current call, its controller is not aborted, the hook is mounted
WrittenSuccess(c) ==
    /\ Settles(c)
    /\ calls'[c].promise = "resolved"
    /\ isMountedRef
    /\ abortControllerRef = c
    /\ ~aborted[c]

\* this step is a reset() of a mounted hook
ResetStep == isMountedRef /\ Reset

\* what C32 says of state.data: a step that issues a call or rejects one
\* leaves data as it is; data changes only when the resolution of the current
\* call is written or on reset(); a failure that is written leaves the
\* earlier data next to a non-null error
DataFrame ==
    /\ [][(IssuesCall \/ \E c \in Issued : Settles(c) /\ calls'[c].promise = "rejected")
            => state'.data = state.data]_vars
    /\ [][state'.data # state.data =>
            (ResetStep \/ \E c \in Issued : WrittenSuccess(c))]_vars
    /\ [][\A c \in Issued :
            (Settles(c) /\ calls'[c].promise = "rejected" /\ state' # state) =>
                /\ state'.data = state.data
                /\ state'.error # NullError]_vars

\* C32 as stated: the frame of state.data, and after every successful
\* settlement of a call state.error is null.
C32_Original ==
    /\ DataFrame
    /\ [][\A c \in Issued :
            (Settles(c) /\ calls'[c].promise = "resolved") => state'.error = NullError]_vars

\* C32, amended: the frame of state.data, and after every successful
\* settlement that is written to the state (the call is current, un-aborted
\* and the hook mounted) state.error is null and data is the payload.
C32_DataFrame ==
    /\ DataFrame
    /\ [][\A c \in Issued :
            WrittenSuccess(c) =>
                /\ state'.error = NullError
                /\ state'.data = PayloadOf(c)]_vars

\* a failure after an earlier success: the state holds the data of the first
\* call and the error of the second
C32_Witness ==
    /\ isMountedRef
    /\ Len(calls) = 2
    /\ calls[1].promise = "resolved"
    /\ calls[1].settledAs = "current"
    /\ calls[2].promise = "rejected"
    /\ calls[2].settledAs = "current"
    /\ state.data = PayloadOf(1)
    /\ state.error # NullError
    /\ state.error = calls[2].reason

\* C33 as stated: in every state after the unmount, every controller the
\* hook created is aborted, those of the calls made after the unmount
\* included.
C33_Original ==
    ~isMountedRef => \A c \in Issued : calls[c].ctrl # 0 => aborted[c]

\* C34: the timeout timer of an executor call is armed once, before the
\* first transport attempt, and no later step arms it again: it stays armed
\* or fired through all attempts and backoff waits of the running call, a
\* timer that fired stays fired, and every attempt started after it fired
\* gets an effective signal that is already aborted.
C34_OneTimer ==
    /\ [](req.x.fetches >= 1 => req.x.timer # "none")
    /\ [](InProgress => req.x.timer \in {"armed", "fired"})
    /\ [][req'.x.timer = "armed" => req.x.timer = "armed"]_vars
    /\ [][req.x.timer = "fired" => req'.x.timer = "fired"]_vars
    /\ [][StartsAttempt =>
            /\ req'.x.timer = req.x.timer
            /\ req.x.timer = "fired" => effectiveAborted(req'.x)]_vars

\* the timer fired during the first attempt or the wait after it, and a
\* further attempt is in flight with an aborted signal
C34_Witness ==
    /\ req.x.phase = "fetching"
    /\ req.x.fetches >= 2
    /\ req.x.timer = "fired"
    /\ effectiveAborted(req.x)
    /\ ~req.signalAborted

\* C35: when onError throws after failed attempt k < maxAttempts, retry
\* rejects in that step with the exception of the callback, not with the
\* error of the attempt; no delay is started, fn is not invoked again and
\* nothing happens after the rejection.
C35_OnErrorThrows ==
    /\ [][(FnRejects /\ r.attempt < r.opts.maxAttempts /\ r.opts.onError = "throws") =>
            /\ r'.pc = "thrown"
            /\ r'.error = CallbackError(r.attempt)
            /\ r'.error # FnError(r.attempt)
            /\ r'.onErrorCalls = Append(r.onErrorCalls,
                                        OnErrorCall(FnError(r.attempt), r.attempt))
            /\ r'.delays = r.delays
            /\ r'.fnCalls = r.fnCalls]_vars
    /\ [][r.pc = "thrown" => r' = r]_vars
    /\ []((r.pc = "thrown" /\ r.error.v = "callback error") =>
            /\ r.fnCalls = r.error.attempt
            /\ r.fnCalls < r.opts.maxAttempts
            /\ r.delays = <<>>
            /\ r.result = NoValue)

\* onError threw after the first of three attempts: retry rejected with the
\* callback's exception after one invocation of fn and no delay
C35_Witness ==
    /\ r.pc = "thrown"
    /\ r.opts.maxAttempts = 3
    /\ r.opts.onError = "throws"
    /\ r.error = CallbackError(1)
    /\ r.lastError = FnError(1)
    /\ r.fnCalls = 1
    /\ r.delays = <<>>

\* retry up to its first suspension, for every options record with
\* maxAttempts <= 0: fn was not invoked and retry threw undefined
RetryWithoutAttempts ==
    \A opts \in RetryOptions :
        opts.maxAttempts <= 0 =>
            /\ retryStart(opts).pc = "thrown"
            /\ retryStart(opts).fnCalls = 0
            /\ retryStart(opts).error = NoValue
            /\ retryStart(opts).onErrorCalls = <<>>
            /\ retryStart(opts).delays = <<>>

\* C36: retry with maxAttempts <= 0 never invokes fn and rejects with
\* undefined; an executor call with retries < 0 whose url passes validation
\* never invokes the transport: it is waiting for the rejection of retry to
\* reach it, or it has rejected with the unknown-error ApiError, whose data
\* is undefined, its timer cleared and its listeners removed.
C36_NoAttempts ==
    /\ RetryWithoutAttempts
    /\ (req.config.retries < 0 /\ ~validateUrlThrows(req.url)) =>
          /\ req.x.phase \in {"unwinding", "rejected"}
          /\ req.x.fetches = 0
          /\ req.x.phase = "unwinding" =>
                /\ req.x.timer = "armed"
                /\ req.x.error = NullError
          /\ req.x.phase = "rejected" =>
                /\ req.x.error = createApiError("unknown error", 0, "undefined")
                /\ req.x.timer = "cleared"
                /\ req.x.listeners = {}

\* a call with retries = -1 and a usable url rejected with the unknown
\* error; its caller aborted the signal right after the call
C36_Witness ==
    /\ req.config.retries = 0 - 1
    /\ req.url = Str(<<"/", "a">>)
    /\ req.x.phase = "rejected"
    /\ req.x.error.message = "unknown error"
    /\ req.x.fetches = 0
    /\ req.signalAborted
    /\ req.x.combinedAborted

----------------------------------------------------------------------------
(* SpecToast: one useToast() instance, its callers and its timers *)

ToastIds == 1..MaxToasts

InitToast ==
    /\ HookIdle
    /\ r = 0
    /\ req = NoExec
    /\ toast = NoToasts

Show(duration) ==
    /\ toast.ids < MaxToasts
    /\ toast' = show(toast, duration)
    /\ UNCHANGED <<hookVars, r, req>>

Close(id) ==
    /\ id <= toast.ids
    /\ toast' = close(toast, id)
    /\ UNCHANGED <<hookVars, r, req>>

CloseAll ==
    /\ Len(toast.clearTimers) < MaxCloseAlls
    /\ toast' = closeAll(toast)
    /\ UNCHANGED <<hookVars, r, req>>

Remove(id) ==
    /\ id <= toast.ids
    /\ toast' = remove(toast, id)
    /\ UNCHANGED <<hookVars, r, req>>

\* the auto-close timer of toast id fires
AutoCloseFires(id) ==
    /\ id \in toast.timers
    /\ toast' = autoCloseTimer(toast, id)
    /\ UNCHANGED <<hookVars, r, req>>

\* the oldest 300 ms timer of closeAll() fires
CloseAllTimerFires ==
    /\ toast.clearTimers # <<>>
    /\ toast' = closeAllTimer(toast)
    /\ UNCHANGED <<hookVars, r, req>>

NextToast ==
    \/ \E duration \in DurationValues : Show(duration)
    \/ \E id \in ToastIds : Close(id)
    \/ CloseAll
    \/ \E id \in ToastIds : Remove(id)
    \/ \E id \in ToastIds : AutoCloseFires(id)
    \/ CloseAllTimerFires

SpecToast == InitToast /\ [][NextToast]_vars

\* the ids of the toasts in the list of t
Listed(t) == {t.toasts[i].id : i \in 1..Len(t.toasts)}

\* C37 as stated: a toast stays in the list until remove(id) is called for
\* it or the timer of a closeAll() that was called after the toast was shown
\* fires, so a closeAll() called before the toast was shown never removes it;
\* close(id) and closeAll() cancel the auto-close timers of the toasts they
\* close, and an auto-close timer fires only for a toast that was not closed.
C37_Original ==
    /\ [][\A id \in Listed(toast) \ Listed(toast') :
            \/ toast' = remove(toast, id)
            \/ /\ CloseAllTimerFires
               /\ id <= Head(toast.clearTimers)]_vars
    /\ [][\A id \in ToastIds :
            (Close(id) \/ (CloseAll /\ id \in Listed(toast))) => id \notin toast'.timers]_vars
    /\ [][\A id \in ToastIds :
            AutoCloseFires(id) =>
                \A i \in 1..Len(toast.toasts) :
                    toast.toasts[i].id = id => toast.toasts[i].isVisible]_vars

====
